---- MODULE Spec2Model ----
(***************************************************************************)
(* Model of the travel-request front-end: the travel request forms         *)
(* (TravelRequestForm.tsx, CreateTravelRequestForm.tsx), the list views    *)
(* (Historial.tsx, Approvals.tsx, Bookings.tsx) and the paginated tables.  *)
(*                                                                         *)
(* Conventions                                                             *)
(*  - A date is a day number 1..MaxDay; EmptyDate models the empty string  *)
(*    of an unfilled <input type="date">.  Date inputs deliver date-only   *)
(*    strings, which dayjs parses as local midnight, so dayjs diff(.., day)*)
(*    is the difference of the day numbers.                                *)
(*  - NULL models null for id_origin_city / id_destination.                *)
(*  - toast, thrown and issued are the outputs of the last step: the       *)
(*    notification it raised, the error it threw out of the handler and    *)
(*    the network calls it issued, if any.                                 *)
(*  - Form fields that are only copied into the payload (motive, title,    *)
(*    priority, advance_money, requirements, details, hotel/plane flags)   *)
(*    are left out; their schema rules only narrow when onSubmit runs.     *)
(***************************************************************************)
EXTENDS Integers, Sequences, FiniteSets, TLC

VARIABLES
    \* ---- travel request form ----
    formVariant,            \* which form component is mounted
    requestId,              \* requestId prop ("" when creating)
    id_origin_city,         \* form value
    requests_destinations,  \* form field array
    formPc,                 \* "editing" | "called" | "pending" | "dashboard"
    lastEvent,              \* the form handler that ran in the last step
    inFlight,               \* number of create/update calls not yet settled
    issued,                 \* network calls issued by the last step
    toast,                  \* notification raised by the last step
    thrown,                 \* error thrown out of the last handler
    \* ---- list views ----
    authState,              \* [userId, userPermissions] of the session
    view,                   \* the list page that is mounted, or "none"
    listPc,                 \* "idle" | "fetching" | "shown" | "failed"
    pendingFetch,           \* list fetches in flight: [view, url, live]
    fetched,                \* the response body the mounted view received
    dataWithActions,        \* the rows handed to the table
    listToast,              \* notification raised by the last list step
    \* ---- paginated table ----
    tableKind,              \* "Refunds" (Refunds/Table) | "Approvals" (Approvals/Table)
    data,                   \* the data prop
    localData,              \* Approvals/Table: state copy of the data prop
    itemsPerPage,           \* the itemsPerPage prop
    currentPage,            \* state
    tableEvent,             \* the table step that ran last: [name, page]
    \* ---- mutation hooks (useCreateRequest.ts over apiService.tsx) ----
    mutations,              \* mutateAsync invocations not yet settled
    invocations,            \* number of mutateAsync invocations so far
    networkCalls,           \* number of POST/PUT calls handed to axios so far
    invalidations,          \* number of invalidateQueries(["travelRequests"]) calls
    serverVersion,          \* number of mutations the server has applied
    lastSettled,            \* the transport outcome the last step consumed
    hookResult,             \* what mutateAsync's promise yielded in the last step
    logged,                 \* console output of the last step
    listRead,               \* a list view reading the requests: [pc, since, shown]
    \* ---- session (authContext.tsx, Layout.tsx) ----
    location,               \* "protected" (a route below ProtectedRoute) or a path
    routeChain,             \* props of the PermissionProtectedRoute elements matched
    providers,              \* mounted AuthProviders, outermost first
    logoutCalls,            \* /login/logout calls not yet settled
    sessionEvent,           \* the session step that ran last: [name, level, outcome]
    \* ---- visited pages and tutorial (appContext.tsx) ----
    pathname,               \* location.pathname, as its segments
    visitedPages,           \* the list stored under "visitedPages" ([] when absent)
    tutorial,               \* AppProvider state
    mounted,                \* list pages that have been mounted so far
    appEvent,               \* the step that ran last: [name, pathname, started]
    \* ---- destination catalog (useDestinations.ts) ----
    destinationsQuery,      \* the ["destinations"] query of the QueryClient
    catalogObserver,        \* a form that calls useDestinations is mounted
    destinationsResult      \* what useDestinations returned to that form

formVars == <<formVariant, requestId, id_origin_city, requests_destinations,
              formPc, lastEvent, inFlight, issued, toast, thrown>>

listVars == <<authState, view, listPc, pendingFetch, fetched,
              dataWithActions, listToast>>

tableVars == <<tableKind, data, localData, itemsPerPage, currentPage,
               tableEvent>>

hookVars == <<mutations, invocations, networkCalls, invalidations,
              serverVersion, lastSettled, hookResult, logged, listRead>>

sessionVars == <<location, routeChain, providers, logoutCalls, sessionEvent>>

appVars == <<pathname, visitedPages, tutorial, mounted, appEvent>>

catalogVars == <<destinationsQuery, catalogObserver, destinationsResult>>

vars == <<formVars, listVars, tableVars, hookVars, sessionVars, appVars,
          catalogVars>>

----------------------------------------------------------------------------
\* Bounds
MaxDest == 2
MaxDay == 2
MaxRecords == 2
MaxLegs == 2
MaxPending == 1
MaxItems == 12
MaxPageSize == 5
MaxInvocations == 3
MaxDepth == 2
MaxLogout == 1
MaxUuids == 2
MaxCatalog == 2
MaxInFlight == 2

\* Values
NULL == "null"
EmptyDate == 0
Dates == 0..MaxDay
OriginIds == {NULL, "city1"}
DestinationIds == {NULL, "dest1"}
StayDayInputs == {0, 1}
FormVariants == {"TravelRequestForm", "CreateTravelRequestForm"}
RequestIds == {"", "req1"}

NoToast == "none"
NoError == "none"
ToastOrigin == "Selecciona una ciudad de origen"
ToastStay == "Los dias de estancia deben ser positivos"
ErrorDestination == "Selecciona un destino"
ToastCreated == "Solicitud de viaje creada exitosamente"
ToastUpdated == "Solicitud de viaje actualizada exitosamente"
ToastCreateFailed == "Error al crear la solicitud de viaje"
ToastUpdateFailed == "Error al actualizar la solicitud de viaje"
ServerMessage == "server message"

----------------------------------------------------------------------------
\* Helpers

\* s with the element at position i (1-based) removed
RemoveAt(s, i) == [j \in 1..(Len(s) - 1) |-> IF j < i THEN s[j] ELSE s[j + 1]]

\* dayjs(a).diff(dayjs(b), "day") for date-only values
DayDiff(a, b) == a - b

\* dayjs(d).toISOString(): the instant of local midnight of day d
toISOString(d) == [day |-> d, time |-> "T00:00"]

----------------------------------------------------------------------------
\* Travel request form

\* the entry passed to append() and used as the first default entry
DefaultDestination ==
    [id_destination |-> NULL, arrival_date |-> EmptyDate,
     departure_date |-> EmptyDate, stay_days |-> 1]

\* DestinationFields: stayDays shown for one entry
stayDays(arrivalDate, departureDate) ==
    IF arrivalDate # EmptyDate /\ departureDate # EmptyDate
    THEN DayDiff(arrivalDate, departureDate)
    ELSE 0

\* DestinationFields effect: setValue(`requests_destinations.${idx}.stay_days`)
\* runs for every rendered entry of TravelRequestForm; CreateTravelRequestForm
\* has no such effect (stay_days is a plain number input there)
SyncStayDays(variant, dests) ==
    IF variant = "TravelRequestForm"
    THEN [i \in DOMAIN dests |->
            [dests[i] EXCEPT !.stay_days =
                stayDays(dests[i].arrival_date, dests[i].departure_date)]]
    ELSE dests

\* initialData of the edit page: a stored request as the server returns it
InitialData ==
    [id_origin_city |-> "city1",
     requests_destinations |->
        <<[id_destination |-> "dest1", arrival_date |-> 2,
           departure_date |-> 1, stay_days |-> 1]>>]

\* defaultValues of useForm
defaultValues(variant, rid) ==
    IF variant = "TravelRequestForm" /\ rid # ""
    THEN InitialData
    ELSE [id_origin_city |-> NULL,
          requests_destinations |-> <<DefaultDestination>>]

\* the props a form can be mounted with: only TravelRequestForm takes requestId
MountProps ==
    {<<v, r>> \in FormVariants \X RequestIds :
        v = "CreateTravelRequestForm" => r = ""}

\* zod schema rules on the modelled fields (resolver of handleSubmit)
destinationSchema(variant, d) ==
    /\ d.arrival_date # EmptyDate
    /\ d.departure_date # EmptyDate
    /\ (variant = "CreateTravelRequestForm" => d.stay_days > 0)

formSchema(variant, dests) ==
    /\ Len(dests) >= 1
    /\ \A i \in DOMAIN dests : destinationSchema(variant, dests[i])

\* a date check that lets a zero-day stay through
InvalidStay_ZeroAllowed(d) == DayDiff(d.arrival_date, d.departure_date) < 0

\* onSubmit: hasInvalidStay (TravelRequestForm only)
InvalidStay(d) == DayDiff(d.arrival_date, d.departure_date) <= 0

hasInvalidStay(variant, dests) ==
    /\ variant = "TravelRequestForm"
    /\ \E i \in DOMAIN dests : InvalidStay(dests[i])

\* a wire record numbered from the 0-based index
WireDestination_ZeroBased(d, idx, len) ==
    [id_destination |-> d.id_destination,
     destination_order |-> idx,
     stay_days |-> d.stay_days,
     arrival_date |-> toISOString(d.arrival_date),
     departure_date |-> toISOString(d.departure_date),
     is_last_destination |-> (idx = len - 1)]

\* onSubmit: the wire record built for the entry at 0-based index idx
WireDestination(d, idx, len) ==
    [id_destination |-> d.id_destination,
     destination_order |-> idx + 1,
     stay_days |-> d.stay_days,
     arrival_date |-> toISOString(d.arrival_date),
     departure_date |-> toISOString(d.departure_date),
     is_last_destination |-> (idx = len - 1)]

\* onSubmit: data.requests_destinations.map(...)
MapDestinations(dests) ==
    [i \in DOMAIN dests |-> WireDestination(dests[i], i - 1, Len(dests))]

\* onSubmit: the map throws when an entry has no destination reference
MapThrows(dests) == \E i \in DOMAIN dests : dests[i].id_destination = NULL

\* an onSubmit that hands every payload to the create mutation
BuildCall_AlwaysPost(rid, origin, dests) ==
    [method |-> "POST",
     requestId |-> rid,
     payload |-> [id_origin_city |-> origin,
                  requests_destinations |-> MapDestinations(dests)]]

\* onSubmit: payload and the mutation it is handed to
BuildCall(rid, origin, dests) ==
    [method |-> IF rid # "" THEN "PUT" ELSE "POST",
     requestId |-> rid,
     payload |-> [id_origin_city |-> origin,
                  requests_destinations |-> MapDestinations(dests)]]

\* an origin check that never fires
OriginUnset_Skipped(origin) == FALSE

\* onSubmit: !data.id_origin_city
OriginUnset(origin) == origin = NULL

\* an onSubmit that maps the entries before it checks the dates
SubmitExit_DestinationFirst(variant, origin, dests) ==
    IF OriginUnset(origin) THEN "origin"
    ELSE IF MapThrows(dests) THEN "throw"
    ELSE IF hasInvalidStay(variant, dests) THEN "stay"
    ELSE "send"

\* onSubmit: which exit the handler takes, in the order of its checks
SubmitExit(variant, origin, dests) ==
    IF OriginUnset(origin) THEN "origin"
    ELSE IF hasInvalidStay(variant, dests) THEN "stay"
    ELSE IF MapThrows(dests) THEN "throw"
    ELSE "send"

\* the positions in which the form is mounted: "editing", no mutation of the
\* form is pending; "called", the last mutateAsync is pending and the form has
\* not been rendered with isPending yet; "pending", rendered with isPending
FormMounted == {"editing", "called", "pending"}

FormInit ==
    /\ \E p \in MountProps :
        /\ formVariant = p[1]
        /\ requestId = p[2]
        /\ id_origin_city = defaultValues(p[1], p[2]).id_origin_city
        /\ requests_destinations =
              SyncStayDays(p[1], defaultValues(p[1], p[2]).requests_destinations)
    /\ formPc = "editing"
    /\ lastEvent = "mount"
    /\ inFlight = 0
    /\ issued = <<>>
    /\ toast = NoToast
    /\ thrown = NoError

\* every user edit clears the outputs of the previous step
Quiet == toast' = NoToast /\ thrown' = NoError /\ issued' = <<>>

\* a field edit: the position in the form does not change
Edited == lastEvent' = "edit" /\ Quiet

\* Select onChange of "Ciudad Origen"
SelectOrigin(o) ==
    /\ formPc \in FormMounted
    /\ o # NULL
    /\ id_origin_city' = o
    /\ Edited
    /\ UNCHANGED <<formVariant, requestId, requests_destinations, formPc,
                   inFlight>>
    /\ UNCHANGED <<listVars, tableVars, hookVars, sessionVars, appVars,
                   catalogVars>>

\* Select onChange of an entry's "Destino"
SelectDestination(i, d) ==
    /\ formPc \in FormMounted
    /\ i \in DOMAIN requests_destinations
    /\ d # NULL
    /\ requests_destinations' =
          [requests_destinations EXCEPT ![i].id_destination = d]
    /\ Edited
    /\ UNCHANGED <<formVariant, requestId, id_origin_city, formPc,
                   inFlight>>
    /\ UNCHANGED <<listVars, tableVars, hookVars, sessionVars, appVars,
                   catalogVars>>

\* date input onChange of "Fecha llegada", followed by the stay_days effect
SetArrivalDate(i, v) ==
    /\ formPc \in FormMounted
    /\ i \in DOMAIN requests_destinations
    /\ requests_destinations' =
          SyncStayDays(formVariant,
              [requests_destinations EXCEPT ![i].arrival_date = v])
    /\ Edited
    /\ UNCHANGED <<formVariant, requestId, id_origin_city, formPc,
                   inFlight>>
    /\ UNCHANGED <<listVars, tableVars, hookVars, sessionVars, appVars,
                   catalogVars>>

\* date input onChange of "Fecha salida", followed by the stay_days effect
SetDepartureDate(i, v) ==
    /\ formPc \in FormMounted
    /\ i \in DOMAIN requests_destinations
    /\ requests_destinations' =
          SyncStayDays(formVariant,
              [requests_destinations EXCEPT ![i].departure_date = v])
    /\ Edited
    /\ UNCHANGED <<formVariant, requestId, id_origin_city, formPc,
                   inFlight>>
    /\ UNCHANGED <<listVars, tableVars, hookVars, sessionVars, appVars,
                   catalogVars>>

\* number input "No. dias estancia" of CreateTravelRequestForm (valueAsNumber);
\* in TravelRequestForm the input is readOnly
SetStayDays(i, n) ==
    /\ formPc \in FormMounted
    /\ formVariant = "CreateTravelRequestForm"
    /\ i \in DOMAIN requests_destinations
    /\ requests_destinations' =
          [requests_destinations EXCEPT ![i].stay_days = n]
    /\ Edited
    /\ UNCHANGED <<formVariant, requestId, id_origin_city, formPc,
                   inFlight>>
    /\ UNCHANGED <<listVars, tableVars, hookVars, sessionVars, appVars,
                   catalogVars>>

\* "+ Anadir destino": append(default entry), then the stay_days effect
AppendDestination ==
    /\ formPc \in FormMounted
    /\ Len(requests_destinations) < MaxDest
    /\ requests_destinations' =
          SyncStayDays(formVariant,
              Append(requests_destinations, DefaultDestination))
    /\ Edited
    /\ UNCHANGED <<formVariant, requestId, id_origin_city, formPc,
                   inFlight>>
    /\ UNCHANGED <<listVars, tableVars, hookVars, sessionVars, appVars,
                   catalogVars>>

\* a "Quitar" button that is rendered for every entry
RemoveAvailable_Always(variant, i, len) == TRUE

\* the "Quitar" button is rendered for idx > 0 in TravelRequestForm and for
\* every entry while fields.length > 1 in CreateTravelRequestForm
RemoveAvailable(variant, i, len) ==
    IF variant = "TravelRequestForm" THEN i - 1 > 0 ELSE len > 1

\* "Quitar": remove(idx), then the stay_days effect
RemoveDestination(i) ==
    /\ formPc \in FormMounted
    /\ i \in DOMAIN requests_destinations
    /\ RemoveAvailable(formVariant, i, Len(requests_destinations))
    /\ requests_destinations' =
          SyncStayDays(formVariant, RemoveAt(requests_destinations, i))
    /\ Edited
    /\ UNCHANGED <<formVariant, requestId, id_origin_city, formPc,
                   inFlight>>
    /\ UNCHANGED <<listVars, tableVars, hookVars, sessionVars, appVars,
                   catalogVars>>

\* the form position after a submit event: a call that was handed to
\* mutateAsync leaves the form in "called", a rejected submission where it was
SubmitPc(exit, pc) == IF exit = "send" THEN "called" ELSE pc

\* handleSubmit(onSubmit): the submit button is disabled in the render that
\* has isPending; the resolver lets onSubmit run only on schema-valid values.
\* The resolver, onSubmit and the start of the mutation run in the task of the
\* submit event.
Submit ==
    /\ formPc \in {"editing", "called"}
    /\ inFlight < MaxInFlight
    /\ formSchema(formVariant, requests_destinations)
    /\ LET exit == SubmitExit(formVariant, id_origin_city,
                              requests_destinations)
       IN /\ toast' = CASE exit = "origin" -> ToastOrigin
                        [] exit = "stay" -> ToastStay
                        [] OTHER -> NoToast
          /\ thrown' = IF exit = "throw" THEN ErrorDestination ELSE NoError
          /\ issued' =
                IF exit = "send"
                THEN <<BuildCall(requestId, id_origin_city,
                                 requests_destinations)>>
                ELSE <<>>
          /\ inFlight' = IF exit = "send" THEN inFlight + 1 ELSE inFlight
          /\ formPc' = SubmitPc(exit, formPc)
    /\ lastEvent' = "onSubmit"
    /\ UNCHANGED <<formVariant, requestId, id_origin_city,
                   requests_destinations>>
    /\ UNCHANGED <<listVars, tableVars, hookVars, sessionVars, appVars,
                   catalogVars>>

\* the mutation observer's notification arrives (useMutation delivers it in a
\* later task) and the form renders with isPending: the button is disabled
RenderPending ==
    /\ formPc = "called"
    /\ formPc' = "pending"
    /\ lastEvent' = "render"
    /\ Quiet
    /\ UNCHANGED <<formVariant, requestId, id_origin_city,
                   requests_destinations, inFlight>>
    /\ UNCHANGED <<listVars, tableVars, hookVars, sessionVars, appVars,
                   catalogVars>>

\* a call that settles is the last one handed to mutateAsync (latest), which
\* isPending follows, or an earlier one that is still in flight
CanSettle(latest) ==
    IF latest THEN formPc \in {"called", "pending"} /\ inFlight > 0
    ELSE inFlight > (IF formPc \in {"called", "pending"} THEN 1 ELSE 0)

\* a settle that navigates whatever the outcome
SettledPc_NavigateAlways(success, latest, pc) == "dashboard"

\* onSubmit after the await: navigate("/dashboard") in the try block only;
\* after a failure the form stays, enabled again when the call was the latest
SettledPc(success, latest, pc) ==
    IF success THEN "dashboard"
    ELSE IF latest THEN "editing"
    ELSE pc

\* the awaited mutation resolves: success toast, reset(), navigate("/dashboard")
ResolveSuccess(latest) ==
    /\ CanSettle(latest)
    /\ toast' = IF requestId # "" THEN ToastUpdated ELSE ToastCreated
    /\ thrown' = NoError
    /\ issued' = <<>>
    /\ id_origin_city' = defaultValues(formVariant, requestId).id_origin_city
    /\ requests_destinations' =
          defaultValues(formVariant, requestId).requests_destinations
    /\ inFlight' = inFlight - 1
    /\ lastEvent' = "resolved"
    /\ formPc' = SettledPc(TRUE, latest, formPc)
    /\ UNCHANGED <<formVariant, requestId>>
    /\ UNCHANGED <<listVars, tableVars, hookVars, sessionVars, appVars,
                   catalogVars>>

\* the awaited mutation rejects: error toast with the server message when the
\* response carries one, the static fallback otherwise; no reset, no navigate
ResolveFailure(latest, hasServerMessage) ==
    /\ CanSettle(latest)
    /\ toast' = IF hasServerMessage THEN ServerMessage
                ELSE IF requestId # "" THEN ToastUpdateFailed
                ELSE ToastCreateFailed
    /\ thrown' = NoError
    /\ issued' = <<>>
    /\ inFlight' = inFlight - 1
    /\ lastEvent' = "rejected"
    /\ formPc' = SettledPc(FALSE, latest, formPc)
    /\ UNCHANGED <<formVariant, requestId, id_origin_city,
                   requests_destinations>>
    /\ UNCHANGED <<listVars, tableVars, hookVars, sessionVars, appVars,
                   catalogVars>>

\* the user opens a form page again, once the calls of the form that was
\* left have settled: a fresh mount with its default values
MountForm(p) ==
    /\ formPc = "dashboard"
    /\ inFlight = 0
    /\ formVariant' = p[1]
    /\ requestId' = p[2]
    /\ id_origin_city' = defaultValues(p[1], p[2]).id_origin_city
    /\ requests_destinations' =
          SyncStayDays(p[1], defaultValues(p[1], p[2]).requests_destinations)
    /\ formPc' = "editing"
    /\ lastEvent' = "mount"
    /\ Quiet
    /\ UNCHANGED inFlight
    /\ UNCHANGED <<listVars, tableVars, hookVars, sessionVars, appVars,
                   catalogVars>>

FormNext ==
    \/ \E o \in OriginIds : SelectOrigin(o)
    \/ \E i \in 1..MaxDest, d \in DestinationIds : SelectDestination(i, d)
    \/ \E i \in 1..MaxDest, v \in Dates : SetArrivalDate(i, v)
    \/ \E i \in 1..MaxDest, v \in Dates : SetDepartureDate(i, v)
    \/ \E i \in 1..MaxDest, n \in StayDayInputs : SetStayDays(i, n)
    \/ AppendDestination
    \/ \E i \in 1..MaxDest : RemoveDestination(i)
    \/ Submit
    \/ RenderPending
    \/ \E latest \in BOOLEAN : ResolveSuccess(latest)
    \/ \E latest, m \in BOOLEAN : ResolveFailure(latest, m)
    \/ \E p \in MountProps : MountForm(p)


----------------------------------------------------------------------------
\* List views: Historial, Approvals, Bookings

Permissions ==
    {"create_request", "approve_request", "submit_reservations",
     "check_budgets"}
UserIds == {"999", "888"}
SessionUserId == "999"
Views == {"historial", "approvals", "bookings"}

KnownStatuses ==
    {"Pending Review", "Denied", "Cancelled", "Changes Needed",
     "Pending Reservations", "Pending Accounting Approval",
     "Pending Vouchers Approval", "In Progress", "Pending Refund Approval",
     "Completed"}
\* "Approved" is the status the tests use; no view has a case for it
AllStatuses == KnownStatuses \cup {"Approved"}

ToastHistorial == "Error al obtener el historial de viajes."

\* formatDate(date) of utils/formatDate
formatDate(d) == [formatted |-> d]

\* a badge whose default case shows an empty label
renderStatus_Bookings_EmptyDefault(status) ==
    CASE status = "Pending Review" ->
            [statusText |-> "En revision", styles |-> "text-[#55447a] bg-[#bea8ef]"]
      [] status = "Denied" ->
            [statusText |-> "Denegado", styles |-> "text-[#680909] bg-[#eca6a6]"]
      [] status = "Cancelled" ->
            [statusText |-> "Cancelado", styles |-> "text-[#680909] bg-[#eca6a6]"]
      [] status = "Changes Needed" ->
            [statusText |-> "Cambios necesarios", styles |-> "text-[#755619] bg-[#f1dbb1]"]
      [] status = "Pending Reservations" ->
            [statusText |-> "Reservas pendientes", styles |-> "text-[#8c5308] bg-[#f1c180]"]
      [] status = "Pending Accounting Approval" ->
            [statusText |-> "Contabilidad pendiente", styles |-> "text-[var(--dark-blue)] bg-[#99b5e3]"]
      [] status = "Pending Vouchers Approval" ->
            [statusText |-> "Comprobantes pendientes", styles |-> "text-[var(--dark-blue)] bg-[#c6c4fb]"]
      [] status = "In Progress" ->
            [statusText |-> "En progreso", styles |-> "text-[var(--dark-blue)] bg-[#b7f1f1]"]
      [] status = "Pending Refund Approval" ->
            [statusText |-> "Reembolso pendiente", styles |-> "text-[#575107] bg-[#f0eaa5]"]
      [] status = "Completed" ->
            [statusText |-> "Completado", styles |-> "text-[#24390d] bg-[#c7e6ab]"]
      [] OTHER ->
            [statusText |-> "", styles |-> "text-white bg-[#6c757d]"]

\* Historial.tsx renderStatus
renderStatus_Historial(status) ==
    CASE status = "Pending Review" ->
            [statusText |-> "En revision", styles |-> "text-[#55447a] bg-[#bea8ef]"]
      [] status = "Denied" ->
            [statusText |-> "Denegado", styles |-> "text-[#680909] bg-[#eca6a6]"]
      [] status = "Cancelled" ->
            [statusText |-> "Cancelado", styles |-> "text-[#680909] bg-[#eca6a6]"]
      [] status = "Changes Needed" ->
            [statusText |-> "Cambios necesarios", styles |-> "text-[#755619] bg-[#f1dbb1]"]
      [] status = "Pending Reservations" ->
            [statusText |-> "Reservas pendientes", styles |-> "text-[#8c5308] bg-[#f1c180]"]
      [] status = "Pending Accounting Approval" ->
            [statusText |-> "Contabilidad pendiente", styles |-> "text-[var(--dark-blue)] bg-[#99b5e3]"]
      [] status = "Pending Vouchers Approval" ->
            [statusText |-> "Comprobantes pendientes", styles |-> "text-[var(--dark-blue)] bg-[#c6c4fb]"]
      [] status = "In Progress" ->
            [statusText |-> "En progreso", styles |-> "text-[var(--dark-blue)] bg-[#b7f1f1]"]
      [] status = "Pending Refund Approval" ->
            [statusText |-> "Reembolso pendiente", styles |-> "text-[#575107] bg-[#f0eaa5]"]
      [] status = "Completed" ->
            [statusText |-> "Completado", styles |-> "text-[#24390d] bg-[#c7e6ab]"]
      [] OTHER ->
            [statusText |-> status, styles |-> "text-white bg-[#6c757d]"]

\* Approvals.tsx renderStatus
renderStatus_Approvals(status) ==
    CASE status = "Pending Review" ->
            [statusText |-> "En revision", styles |-> "text-[#55447a] bg-[#bea8ef]"]
      [] status = "Denied" ->
            [statusText |-> "Denegado", styles |-> "text-[#680909] bg-[#eca6a6]"]
      [] status = "Cancelled" ->
            [statusText |-> "Cancelado", styles |-> "text-[#680909] bg-[#eca6a6]"]
      [] status = "Changes Needed" ->
            [statusText |-> "Cambios necesarios", styles |-> "text-[#755619] bg-[#f1dbb1]"]
      [] status = "Pending Reservations" ->
            [statusText |-> "Reservas pendientes", styles |-> "text-[#8c5308] bg-[#f1c180]"]
      [] status = "Pending Accounting Approval" ->
            [statusText |-> "Contabilidad pendiente", styles |-> "text-[var(--dark-blue)] bg-[#99b5e3]"]
      [] status = "Pending Vouchers Approval" ->
            [statusText |-> "Comprobantes pendientes", styles |-> "text-[var(--dark-blue)] bg-[#c6c4fb]"]
      [] status = "In Progress" ->
            [statusText |-> "En progreso", styles |-> "text-[var(--dark-blue)] bg-[#b7f1f1]"]
      [] status = "Pending Refund Approval" ->
            [statusText |-> "Reembolso pendiente", styles |-> "text-[#575107] bg-[#f0eaa5]"]
      [] status = "Completed" ->
            [statusText |-> "Completado", styles |-> "text-[#24390d] bg-[#c7e6ab]"]
      [] OTHER ->
            [statusText |-> status, styles |-> "text-white bg-[#6c757d]"]

\* Bookings.tsx renderStatus
renderStatus_Bookings(status) ==
    CASE status = "Pending Review" ->
            [statusText |-> "En revision", styles |-> "text-[#55447a] bg-[#bea8ef]"]
      [] status = "Denied" ->
            [statusText |-> "Denegado", styles |-> "text-[#680909] bg-[#eca6a6]"]
      [] status = "Cancelled" ->
            [statusText |-> "Cancelado", styles |-> "text-[#680909] bg-[#eca6a6]"]
      [] status = "Changes Needed" ->
            [statusText |-> "Cambios necesarios", styles |-> "text-[#755619] bg-[#f1dbb1]"]
      [] status = "Pending Reservations" ->
            [statusText |-> "Reservas pendientes", styles |-> "text-[#8c5308] bg-[#f1c180]"]
      [] status = "Pending Accounting Approval" ->
            [statusText |-> "Contabilidad pendiente", styles |-> "text-[var(--dark-blue)] bg-[#99b5e3]"]
      [] status = "Pending Vouchers Approval" ->
            [statusText |-> "Comprobantes pendientes", styles |-> "text-[var(--dark-blue)] bg-[#c6c4fb]"]
      [] status = "In Progress" ->
            [statusText |-> "En progreso", styles |-> "text-[var(--dark-blue)] bg-[#b7f1f1]"]
      [] status = "Pending Refund Approval" ->
            [statusText |-> "Reembolso pendiente", styles |-> "text-[#575107] bg-[#f0eaa5]"]
      [] status = "Completed" ->
            [statusText |-> "Completado", styles |-> "text-[#24390d] bg-[#c7e6ab]"]
      [] OTHER ->
            [statusText |-> status, styles |-> "text-white bg-[#6c757d]"]

\* the renderStatus of the page that is mounted
renderStatus(v, status) ==
    CASE v = "historial" -> renderStatus_Historial(status)
      [] v = "approvals" -> renderStatus_Approvals(status)
      [] OTHER -> renderStatus_Bookings(status)

\* Array.prototype.sort((a, b) => a.destination_order - b.destination_order):
\* a stable ascending sort
InsertByOrder(x, s) ==
    LET k == Cardinality({i \in DOMAIN s :
                            s[i].destination_order <= x.destination_order})
    IN SubSeq(s, 1, k) \o <<x>> \o SubSeq(s, k + 1, Len(s))

RECURSIVE SortByOrder(_)
SortByOrder(s) ==
    IF s = <<>> THEN <<>>
    ELSE InsertByOrder(s[Len(s)], SortByOrder(SubSeq(s, 1, Len(s) - 1)))

\* a departure date taken from the array as stored, without sorting
FirstDeparture_Unsorted(legs) == legs[1].departure_date

\* requests_destinations.sort(...)[0].departure_date
FirstDeparture(legs) == SortByOrder(legs)[1].departure_date

\* reading [0].departure_date of an empty array throws a TypeError
TransformThrows(response) ==
    \E i \in DOMAIN response : response[i].requests_destinations = <<>>

\* the row a view builds for one record
Row(v, record) ==
    [id |-> record.id,
     status |-> renderStatus(v, record.status),
     departureDate |-> formatDate(FirstDeparture(record.requests_destinations))]

\* a transformation that stores the rows one at a time as it builds them
setDataWithActions_Partial(v, kept, prev) ==
    LET bad == {i \in DOMAIN kept : kept[i].requests_destinations = <<>>}
        upTo == IF bad = {} THEN Len(kept)
                ELSE (CHOOSE i \in bad : \A j \in bad : i <= j) - 1
    IN [i \in 1..upTo |-> Row(v, kept[i])]

\* setDataWithActions(response.map(...)) inside try: a throw of map leaves
\* the state as it was, since setDataWithActions is not reached
setDataWithActions(v, kept, prev) ==
    IF TransformThrows(kept) THEN prev
    ELSE [i \in DOMAIN kept |-> Row(v, kept[i])]

\* an endpoint choice that asks for check_budgets first
Endpoint_BudgetsFirst(permissions) ==
    IF "check_budgets" \in permissions THEN "/requests/to-approve-SOI"
    ELSE IF "create_request" \in permissions THEN "/requests/user"
    ELSE "/requests/all"

\* Historial.fetchTravelRecords: endpoint
Endpoint(permissions) ==
    IF "create_request" \in permissions THEN "/requests/user"
    ELSE IF "check_budgets" \in permissions THEN "/requests/to-approve-SOI"
    ELSE "/requests/all"

\* the endpoint a page fetches its list from
ListUrl(v, permissions) ==
    CASE v = "historial" -> Endpoint(permissions)
      [] v = "approvals" -> "/requests/to-approve"
      [] OTHER -> "/requests/to-reserve"

\* an approver filter that forgets the id_admin comparison
ApproveFilter_AnyAdmin(response, userId) ==
    LET Keep(record) ==
            record.status \notin {"Pending Review", "Denied", "Cancelled"}
    IN SelectSeq(response, Keep)

\* Historial.fetchTravelRecords: filter applied with approve_request
ApproveFilter(response, userId) ==
    LET Keep(record) ==
            /\ record.status \notin {"Pending Review", "Denied", "Cancelled"}
            /\ record.id_admin = userId
    IN SelectSeq(response, Keep)

\* Historial.fetchTravelRecords: filter applied with submit_reservations;
\* travelAgentsIds collects the agency users of every record of the response
ReservationsFilter(response, userId) ==
    LET travelAgentsIds ==
            UNION {response[i].travel_agency : i \in DOMAIN response}
        Keep(record) ==
            /\ record.status \notin
                  {"Pending Review", "Denied", "Cancelled", "Changes Needed",
                   "Pending Reservations"}
            /\ userId \in travelAgentsIds
    IN SelectSeq(response, Keep)

\* a budget filter that forgets the status comparison
BudgetsFilter_AnyStatus(response, userId) ==
    LET Keep(record) == record.id_SOI = userId
    IN SelectSeq(response, Keep)

\* Historial.fetchTravelRecords: filter applied with check_budgets
BudgetsFilter(response, userId) ==
    LET Keep(record) ==
            /\ record.status \in {"Pending Accounting Approval"}
            /\ record.id_SOI = userId
    IN SelectSeq(response, Keep)

\* Historial.fetchTravelRecords: the three filters in sequence
HistorialFilter(response, auth) ==
    LET r1 == IF "approve_request" \in auth.userPermissions
              THEN ApproveFilter(response, auth.userId) ELSE response
        r2 == IF "submit_reservations" \in auth.userPermissions
              THEN ReservationsFilter(r1, auth.userId) ELSE r1
        r3 == IF "check_budgets" \in auth.userPermissions
              THEN BudgetsFilter(r2, auth.userId) ELSE r2
    IN r3

\* the records a page keeps of a response
Retained(v, response, auth) ==
    IF v = "historial" THEN HistorialFilter(response, auth) ELSE response

\* fetched records: the id is the position in the response
WithIds(bodies) ==
    [i \in DOMAIN bodies |->
        [id |-> i,
         status |-> bodies[i].status,
         id_admin |-> bodies[i].id_admin,
         id_SOI |-> bodies[i].id_SOI,
         travel_agency |-> bodies[i].travel_agency,
         requests_destinations |-> bodies[i].requests_destinations]]

SeqsUpTo(S, n) == UNION {[1..k -> S] : k \in 0..n}

\* itineraries of n legs stored in any order: the orders are 1..n
Itineraries(n) ==
    {legs \in [1..n -> [destination_order : 1..n, departure_date : 1..MaxDay]] :
        {legs[i].destination_order : i \in 1..n} = 1..n}

OneLeg == <<[destination_order |-> 1, departure_date |-> 1]>>

\* responses that vary what the filters look at
FilterRecords ==
    [status : {"Pending Review", "Pending Reservations",
               "Pending Accounting Approval", "Approved"},
     id_admin : UserIds, id_SOI : UserIds,
     travel_agency : {{"999"}, {"888"}},
     requests_destinations : {OneLeg}]

\* single records of every status
StatusRecords ==
    [status : AllStatuses, id_admin : UserIds, id_SOI : UserIds,
     travel_agency : {{"999"}}, requests_destinations : {OneLeg}]

\* responses that vary the stored order of the itinerary
ItineraryRecords ==
    [status : {"In Progress"}, id_admin : {"999"}, id_SOI : {"999"},
     travel_agency : {{"999"}},
     requests_destinations : UNION {Itineraries(n) : n \in 0..MaxLegs}]

\* the response bodies a page is given; only Historial filters, so only it
\* is given the responses that vary what the filters look at
PlainResponses ==
    {WithIds(b) : b \in SeqsUpTo(ItineraryRecords, MaxRecords)
                        \cup [1..1 -> StatusRecords]}

FilterResponses ==
    {WithIds(b) : b \in SeqsUpTo(FilterRecords, MaxRecords)}

Responses(v) ==
    IF v = "historial" THEN PlainResponses \cup FilterResponses
    ELSE PlainResponses

ListInit ==
    /\ authState \in [userId : {SessionUserId},
                      userPermissions : SUBSET Permissions]
    /\ view = "none"
    /\ listPc = "idle"
    /\ pendingFetch = <<>>
    /\ fetched = <<>>
    /\ dataWithActions = <<>>
    /\ listToast = NoToast

\* a list page mounts: useState([]) and the fetch effect with its getRequest
MountView(v) ==
    /\ view = "none"
    /\ Len(pendingFetch) < MaxPending
    /\ view' = v
    /\ listPc' = "fetching"
    /\ pendingFetch' =
          Append(pendingFetch,
                 [view |-> v, url |-> ListUrl(v, authState.userPermissions),
                  live |-> TRUE])
    /\ fetched' = <<>>
    /\ dataWithActions' = <<>>
    /\ listToast' = NoToast
    /\ UNCHANGED authState
    /\ UNCHANGED <<formVars, tableVars, hookVars, sessionVars, appVars,
                   catalogVars>>

\* the user leaves the page: its state is dropped; a fetch still in flight
\* is not cancelled
UnmountView ==
    /\ view # "none"
    /\ view' = "none"
    /\ listPc' = "idle"
    /\ pendingFetch' =
          [i \in DOMAIN pendingFetch |-> [pendingFetch[i] EXCEPT !.live = FALSE]]
    /\ fetched' = <<>>
    /\ dataWithActions' = <<>>
    /\ listToast' = NoToast
    /\ UNCHANGED authState
    /\ UNCHANGED <<formVars, tableVars, hookVars, sessionVars, appVars,
                   catalogVars>>

\* getRequest resolves for the page that is still mounted: filter, transform,
\* setState; a throw of the transformation lands in the catch block
FetchResolve(k) ==
    /\ k \in DOMAIN pendingFetch
    /\ pendingFetch[k].live
    /\ pendingFetch' = RemoveAt(pendingFetch, k)
    /\ \E response \in Responses(view) :
       LET kept == Retained(view, response, authState)
           throws == TransformThrows(kept)
       IN /\ listToast' = IF throws /\ view = "historial"
                          THEN ToastHistorial ELSE NoToast
          /\ fetched' = response
          /\ listPc' = IF throws THEN "failed" ELSE "shown"
          /\ dataWithActions' =
                setDataWithActions(view, kept, dataWithActions)
    /\ UNCHANGED <<authState, view>>
    /\ UNCHANGED <<formVars, tableVars, hookVars, sessionVars, appVars,
                   catalogVars>>

\* getRequest rejects for the page that is still mounted: console.error, and
\* a notification in Historial
FetchReject(k) ==
    /\ k \in DOMAIN pendingFetch
    /\ pendingFetch[k].live
    /\ pendingFetch' = RemoveAt(pendingFetch, k)
    /\ listToast' = IF view = "historial" THEN ToastHistorial ELSE NoToast
    /\ listPc' = "failed"
    /\ UNCHANGED <<authState, view, fetched, dataWithActions>>
    /\ UNCHANGED <<formVars, tableVars, hookVars, sessionVars, appVars,
                   catalogVars>>

\* a fetch of a page that was left settles: its setState has no effect; the
\* catch block of Historial still raises its notification when the fetch
\* failed or the transformation threw
FetchSettleStale(k, failed) ==
    /\ k \in DOMAIN pendingFetch
    /\ ~pendingFetch[k].live
    /\ pendingFetch' = RemoveAt(pendingFetch, k)
    /\ listToast' = IF failed /\ pendingFetch[k].view = "historial"
                    THEN ToastHistorial ELSE NoToast
    /\ UNCHANGED <<authState, view, listPc, fetched, dataWithActions>>
    /\ UNCHANGED <<formVars, tableVars, hookVars, sessionVars, appVars,
                   catalogVars>>

ListNext ==
    \/ \E v \in Views : MountView(v)
    \/ UnmountView
    \/ \E k \in 1..MaxPending : FetchResolve(k)
    \/ \E k \in 1..MaxPending : FetchReject(k)
    \/ \E k \in 1..MaxPending, failed \in BOOLEAN : FetchSettleStale(k, failed)

----------------------------------------------------------------------------
\* Paginated tables: Refunds/Table.tsx and Approvals/Table.tsx

TableKinds == {"Refunds", "Approvals"}
PageArgs == (0 - 2)..(MaxItems + 2)

Min(a, b) == IF a < b THEN a ELSE b
Max(a, b) == IF a > b THEN a ELSE b

\* Math.ceil(n / s) for n >= 0, s >= 1
Ceil(n, s) == (n + s - 1) \div s

\* Array.prototype.slice(start, end) with 0-based indices; a negative index
\* counts from the end of the array
Slice(a, start, end) ==
    LET len == Len(a)
        from == IF start < 0 THEN Max(len + start, 0) ELSE Min(start, len)
        to == IF end < 0 THEN Max(len + end, 0) ELSE Min(end, len)
    IN IF from < to THEN SubSeq(a, from + 1, to) ELSE <<>>

\* the collection the table paginates: the data prop in Refunds/Table, the
\* localData state in Approvals/Table
Collection == IF tableKind = "Approvals" THEN localData ELSE data

totalPages == Ceil(Len(Collection), itemsPerPage)
indexOfLastItem == currentPage * itemsPerPage
indexOfFirstItem == indexOfLastItem - itemsPerPage
currentItems == Slice(Collection, indexOfFirstItem, indexOfLastItem)

\* a page change that keeps only the lower bound
ClampPage_NoUpperBound(page, total) == IF page < 1 THEN 1 ELSE page

\* changePage: the two guards in their order
ClampPage(page, total) ==
    LET p1 == IF page < 1 THEN 1 ELSE page
    IN IF p1 > total THEN total ELSE p1

\* a collection of n items
Items(n) == [i \in 1..n |-> i]

TableInit ==
    /\ tableKind \in TableKinds
    /\ itemsPerPage \in 1..MaxPageSize
    /\ data = <<>>
    /\ localData = <<>>
    /\ currentPage = 1
    /\ tableEvent = [name |-> "mount", page |-> 0]

\* the page hands the table a new data prop; the effect of Approvals/Table
\* copies it into localData
SetData(n) ==
    /\ data' = Items(n)
    /\ localData' = IF tableKind = "Approvals" THEN Items(n) ELSE localData
    /\ tableEvent' = [name |-> "data", page |-> 0]
    /\ UNCHANGED <<tableKind, itemsPerPage, currentPage>>
    /\ UNCHANGED <<formVars, listVars, hookVars, sessionVars, appVars,
                   catalogVars>>

\* changePage(page)
changePage(page) ==
    /\ currentPage' = ClampPage(page, totalPages)
    /\ tableEvent' = [name |-> "changePage", page |-> page]
    /\ UNCHANGED <<tableKind, itemsPerPage, data, localData>>
    /\ UNCHANGED <<formVars, listVars, hookVars, sessionVars, appVars,
                   catalogVars>>

TableNext ==
    \/ \E n \in 0..MaxItems : SetData(n)
    \/ \E page \in PageArgs : changePage(page)

\* the "<" button: rendered while totalPages > 1, disabled on page 1
PreviousPage ==
    /\ totalPages > 1
    /\ currentPage # 1
    /\ changePage(currentPage - 1)

\* the ">" button: rendered while totalPages > 1, disabled on the page whose
\* number is totalPages
NextPage ==
    /\ totalPages > 1
    /\ currentPage # totalPages
    /\ changePage(currentPage + 1)

\* the table as its user drives it: changePage is called by the two buttons
TableUiNext ==
    \/ \E n \in 0..MaxItems : SetData(n)
    \/ PreviousPage
    \/ NextPage

----------------------------------------------------------------------------
\* Mutation hooks: useCreateTravelRequest / useUpdateTravelRequest
\* (useCreateRequest.ts) over postRequest / putRequest and the axios response
\* interceptor (apiService.tsx)

Hooks == {"useCreateTravelRequest", "useUpdateTravelRequest"}

\* createRequest posts, updateRequest puts
HttpMethod(hook) == IF hook = "useCreateTravelRequest" THEN "POST" ELSE "PUT"

\* how a call can fail: a 4xx/5xx response, the 5000 ms timeout, no
\* connection, or an error raised while the request was set up
TransportFailures == {"response", "timeout", "network", "setup"}

\* error.response of an error that carries no response
NoResponse == [status |-> "none", data |-> [message |-> ""]]

\* no error object
NoAxiosError == [call |-> 0, response |-> NoResponse, request |-> FALSE]

NoOutcome == [call |-> 0, outcome |-> "none", error |-> NoAxiosError]
NoResult ==
    [settled |-> "none", call |-> 0, value |-> NULL, error |-> NoAxiosError]

\* the AxiosError of call id: error.response is set only for a 4xx/5xx reply,
\* error.request whenever the request was sent
AxiosError(id, failure) ==
    [call |-> id,
     response |-> IF failure = "response"
                  THEN [status |-> "5xx", data |-> [message |-> ServerMessage]]
                  ELSE NoResponse,
     request |-> failure # "setup"]

\* what the interceptor's rejected handler writes to the console
InterceptorLogs(error) ==
    IF error.response # NoResponse THEN {"STATUS", "DATA", "MESSAGE"}
    ELSE IF error.request THEN {"No se recibio respuesta de la API"}
    ELSE {"Error al configurar la peticion"}

\* api.interceptors.response rejected handler: throw error in the response
\* branch, Promise.reject(error) otherwise
InterceptorRejects(error) == error

\* a wrapper whose catch block drops the error
WrapperCatch_Swallowed(error) ==
    [settled |-> "resolved", call |-> error.call, value |-> NULL,
     error |-> NoAxiosError]

\* postRequest / putRequest: catch (error) { throw error; }
WrapperCatch(error) ==
    [settled |-> "rejected", call |-> error.call, value |-> NULL,
     error |-> error]

\* postRequest / putRequest: return response.data
WrapperReturn(id) ==
    [settled |-> "resolved", call |-> id, value |-> "response.data",
     error |-> NoAxiosError]

\* onError: console.error(...), then throw error
OnErrorLogs(hook) ==
    IF hook = "useCreateTravelRequest"
    THEN {"Error creating travel request:"}
    ELSE {"Error updating travel request:"}

\* onError: the error the callback throws is the one it was given
OnErrorThrows(error) == error

\* the promise of mutateAsync when the mutationFn rejected with r.error and
\* onError threw
MutateAsyncRejects(r) ==
    [settled |-> "rejected", call |-> r.call, value |-> NULL,
     error |-> OnErrorThrows(r.error)]

\* a query client that retries a failed mutation once
ShouldRetry_Once(failureCount) == failureCount < 1

\* useMutation is given no retry option and the QueryClient no defaultOptions:
\* a failed mutationFn is not run again
ShouldRetry(failureCount) == FALSE

\* an onSuccess that also runs for failed mutations
InvalidatesOn_Always(settled) == TRUE

\* invalidateQueries is called from onSuccess only
InvalidatesOn(settled) == settled = "resolved"

HookInit ==
    /\ mutations = <<>>
    /\ invocations = 0
    /\ networkCalls = 0
    /\ invalidations = 0
    /\ serverVersion = 0
    /\ lastSettled = NoOutcome
    /\ hookResult = NoResult
    /\ logged = {}
    /\ listRead = [pc |-> "none", since |-> 0, shown |-> 0 - 1]

\* mutateAsync(variables): the mutationFn hands one POST/PUT to axios
mutateAsync(hook) ==
    /\ invocations < MaxInvocations
    /\ invocations' = invocations + 1
    /\ mutations' = Append(mutations,
                          [call |-> invocations + 1, hook |-> hook,
                           method |-> HttpMethod(hook), failureCount |-> 0])
    /\ networkCalls' = networkCalls + 1
    /\ lastSettled' = NoOutcome
    /\ hookResult' = NoResult
    /\ logged' = IF hook = "useCreateTravelRequest" THEN {"DATA"} ELSE {}
    /\ UNCHANGED <<invalidations, serverVersion, listRead>>
    /\ UNCHANGED <<formVars, listVars, tableVars, sessionVars, appVars,
                   catalogVars>>

\* the server answers 2xx: interceptor passes the response through, the
\* wrapper returns response.data, onSuccess invalidates, mutateAsync resolves
MutationSucceeds(k) ==
    /\ k \in DOMAIN mutations
    /\ LET m == mutations[k]
           r == WrapperReturn(m.call)
       IN /\ lastSettled' = [call |-> m.call, outcome |-> "2xx",
                             error |-> NoAxiosError]
          /\ hookResult' = r
          /\ invalidations' = IF InvalidatesOn(r.settled)
                              THEN invalidations + 1 ELSE invalidations
          /\ logged' = {}
    /\ mutations' = RemoveAt(mutations, k)
    /\ serverVersion' = serverVersion + 1
    /\ UNCHANGED <<invocations, networkCalls, listRead>>
    /\ UNCHANGED <<formVars, listVars, tableVars, sessionVars, appVars,
                   catalogVars>>

\* the call fails: interceptor logs and rejects, the wrapper rethrows, the
\* mutation runs the call again while failureCount < retry, otherwise onError
\* logs and throws and mutateAsync rejects
MutationFails(k, failure) ==
    /\ k \in DOMAIN mutations
    /\ LET m == mutations[k]
           error == AxiosError(m.call, failure)
           r == WrapperCatch(InterceptorRejects(error))
       IN /\ lastSettled' = [call |-> m.call, outcome |-> failure,
                             error |-> error]
          /\ IF r.settled = "rejected" /\ ShouldRetry(m.failureCount)
             THEN /\ mutations' =
                        [mutations EXCEPT ![k].failureCount = @ + 1]
                  /\ networkCalls' = networkCalls + 1
                  /\ hookResult' = NoResult
                  /\ logged' = InterceptorLogs(error)
                  /\ UNCHANGED invalidations
             ELSE /\ mutations' = RemoveAt(mutations, k)
                  /\ UNCHANGED networkCalls
                  /\ hookResult' = IF r.settled = "rejected"
                                   THEN MutateAsyncRejects(r) ELSE r
                  /\ logged' = InterceptorLogs(error) \cup
                               (IF r.settled = "rejected"
                                THEN OnErrorLogs(m.hook) ELSE {})
                  /\ invalidations' = IF InvalidatesOn(r.settled)
                                      THEN invalidations + 1
                                      ELSE invalidations
    /\ UNCHANGED <<invocations, serverVersion, listRead>>
    /\ UNCHANGED <<formVars, listVars, tableVars, sessionVars, appVars,
                   catalogVars>>

\* a list view mounts: its effect calls getRequest, there is no query cache
\* between the view and the server
ListViewRead ==
    /\ listRead' = [pc |-> "fetching", since |-> serverVersion,
                    shown |-> 0 - 1]
    /\ lastSettled' = NoOutcome
    /\ hookResult' = NoResult
    /\ logged' = {}
    /\ UNCHANGED <<mutations, invocations, networkCalls, invalidations,
                   serverVersion>>
    /\ UNCHANGED <<formVars, listVars, tableVars, sessionVars, appVars,
                   catalogVars>>

\* the list fetch resolves with the requests the server holds now
ListViewShow ==
    /\ listRead.pc = "fetching"
    /\ listRead' = [listRead EXCEPT !.pc = "shown", !.shown = serverVersion]
    /\ lastSettled' = NoOutcome
    /\ hookResult' = NoResult
    /\ logged' = {}
    /\ UNCHANGED <<mutations, invocations, networkCalls, invalidations,
                   serverVersion>>
    /\ UNCHANGED <<formVars, listVars, tableVars, sessionVars, appVars,
                   catalogVars>>

HookNext ==
    \/ \E hook \in Hooks : mutateAsync(hook)
    \/ \E k \in 1..MaxInvocations : MutationSucceeds(k)
    \/ \E k \in 1..MaxInvocations, failure \in TransportFailures :
          MutationFails(k, failure)
    \/ ListViewRead
    \/ ListViewShow

----------------------------------------------------------------------------
\* Session: AuthProvider, ProtectedRoute, PermissionProtectedRoute
\* (authContext.tsx), Layout (Layout.tsx) and the logout button (Header.tsx)

RoutePermissions == {"approve_trip", "view_approval_history"}

\* useState initial value of authState; also what handleLogout sets
DefaultAuthState ==
    [isAuthenticated |-> FALSE, userId |-> "", userName |-> "",
     userLastName |-> "", userRole |-> "", userEmail |-> "",
     userPermissions |-> {}]

\* an AuthProvider right after it mounted: its effect has issued the
\* /login/profile request
MountedProvider ==
    [authState |-> DefaultAuthState, loadingProfile |-> TRUE,
     profileFetch |-> "pending"]

\* bodies of the /login/profile reply: a truthy status with a user, a falsy
\* status, a truthy status without a user, or no reply at all
ProfileResponses ==
    {[kind |-> "profile", permissions |-> P] : P \in SUBSET RoutePermissions}
    \cup {[kind |-> k, permissions |-> {}] :
            k \in {"falsy", "malformed", "rejected"}}

\* getAuthState .then, status truthy: the state built from response.user
ProfileAuthState(response) ==
    [isAuthenticated |-> TRUE, userId |-> SessionUserId, userName |-> "Ana",
     userLastName |-> "Paz", userRole |-> "role1",
     userEmail |-> "ana@example.com",
     userPermissions |-> response.permissions]

\* a catch block that leaves the loading flag set
CatchLoading_Kept(loading) == loading

\* getAuthState .catch: setLoadingProfile(false)
CatchLoading(loading) == FALSE

\* getAuthState: the provider after the /login/profile promise settled.
\* Reading response.user of a truthy reply without a user throws inside
\* .then, which lands in .catch like a rejected request.
getAuthState(provider, response) ==
    IF response.kind = "profile"
    THEN [authState |-> ProfileAuthState(response),
          loadingProfile |-> FALSE, profileFetch |-> "settled"]
    ELSE IF response.kind = "falsy"
    THEN [authState |-> [provider.authState EXCEPT !.isAuthenticated = FALSE],
          loadingProfile |-> FALSE, profileFetch |-> "settled"]
    ELSE [authState |-> [provider.authState EXCEPT !.isAuthenticated = FALSE],
          loadingProfile |-> CatchLoading(provider.loadingProfile),
          profileFetch |-> "settled"]

\* how the /login/logout call can end: status truthy, status falsy, or the
\* request fails and postRequest throws
LogoutOutcomes == {"truthy", "falsy", "rejected"}

\* handleLogout after the await: the state is replaced only inside
\* if (response.status)
LogoutAuthState(auth, outcome) ==
    IF outcome = "truthy" THEN DefaultAuthState ELSE auth

\* a layout that tests isAuthenticated before loadingProfile
Layout_AuthFirst(provider) ==
    IF ~provider.authState.isAuthenticated THEN "/"
    ELSE IF provider.loadingProfile THEN "Loading..."
    ELSE "children"

\* Layout: the placeholder while loading, <Navigate to="/"> when not
\* authenticated, the page frame with its children otherwise
Layout(provider) ==
    IF provider.loadingProfile THEN "Loading..."
    ELSE IF ~provider.authState.isAuthenticated THEN "/"
    ELSE "children"

\* props of PermissionProtectedRoute
RouteProps ==
    {[requiredPermissions |-> {"approve_trip"}, requireAll |-> TRUE],
     [requiredPermissions |-> RoutePermissions, requireAll |-> TRUE],
     [requiredPermissions |-> RoutePermissions, requireAll |-> FALSE]}

\* hasPermission with every() used for both settings of requireAll
hasPermission_AlwaysEvery(auth, props) ==
    \A p \in props.requiredPermissions : p \in auth.userPermissions

\* PermissionProtectedRoute: every() when requireAll, some() otherwise
hasPermission(auth, props) ==
    IF props.requireAll
    THEN \A p \in props.requiredPermissions : p \in auth.userPermissions
    ELSE \E p \in props.requiredPermissions : p \in auth.userPermissions

\* PermissionProtectedRoute: what it returns for the authState of the
\* nearest AuthProvider
PermissionProtectedRoute(auth, props) ==
    IF ~auth.isAuthenticated THEN "/example"
    ELSE IF ~hasPermission(auth, props) THEN "/unauthorized"
    ELSE "Outlet"

\* the route elements below Layout: PermissionProtectedRoute k reads provider
\* k and, when it renders its Outlet, wraps it in provider k + 1
RECURSIVE MountChain(_, _, _)
MountChain(ps, chain, k) ==
    IF k > Len(chain) THEN SubSeq(ps, 1, k)
    ELSE IF PermissionProtectedRoute(ps[k].authState, chain[k]) # "Outlet"
    THEN SubSeq(ps, 1, k)
    ELSE MountChain(IF Len(ps) > k THEN ps
                    ELSE Append(SubSeq(ps, 1, k), MountedProvider),
                    chain, k + 1)

\* the providers that are mounted once React has rendered the route
Reconcile(ps, chain) ==
    IF Layout(ps[1]) # "children" THEN <<ps[1]>>
    ELSE MountChain(ps, chain, 1)

\* what the route elements below Layout produce
RECURSIVE RouteChain(_, _, _)
RouteChain(ps, chain, k) ==
    IF k > Len(chain) THEN "page"
    ELSE LET r == PermissionProtectedRoute(ps[k].authState, chain[k])
         IN IF r # "Outlet" THEN r ELSE RouteChain(ps, chain, k + 1)

\* what ProtectedRoute shows
Screen(ps, chain) ==
    IF Layout(ps[1]) # "children" THEN Layout(ps[1])
    ELSE RouteChain(ps, chain, 1)

Redirects == {"/", "/example", "/unauthorized"}

\* chains of nested PermissionProtectedRoute elements of a matched route
RouteChains == UNION {[1..n -> RouteProps] : n \in 0..MaxDepth}

\* length of the common prefix of two chains: the route elements that stay
\* mounted across a navigation
RECURSIVE CommonPrefix(_, _, _)
CommonPrefix(a, b, k) ==
    IF k > Len(a) \/ k > Len(b) THEN k - 1
    ELSE IF a[k] # b[k] THEN k - 1
    ELSE CommonPrefix(a, b, k + 1)

\* a <Navigate> is rendered: its effect runs with the commit that rendered
\* it, before any reply or user event is handled
RedirectPending == Screen(providers, routeChain) \in Redirects

NoSessionEvent == [name |-> "none", level |-> 0, outcome |-> "none"]

SessionInit ==
    /\ location = "/"
    /\ routeChain = <<>>
    /\ providers = <<>>
    /\ logoutCalls = 0
    /\ sessionEvent = NoSessionEvent

\* the browser opens a URL below ProtectedRoute: AuthProvider mounts and its
\* effect requests the profile
OpenProtected(chain) ==
    /\ location # "protected"
    /\ location' = "protected"
    /\ routeChain' = chain
    /\ providers' = Reconcile(<<MountedProvider>>, chain)
    /\ logoutCalls' = 0
    /\ sessionEvent' = [name |-> "open", level |-> 1, outcome |-> "none"]
    /\ UNCHANGED <<formVars, listVars, tableVars, hookVars, appVars,
                   catalogVars>>

\* a link of the page frame is followed: navigation inside ProtectedRoute
NavigateWithin(chain) ==
    /\ location = "protected"
    /\ ~RedirectPending
    /\ Layout(providers[1]) = "children"
    /\ chain # routeChain
    /\ routeChain' = chain
    /\ providers' =
          Reconcile(SubSeq(providers, 1,
                           Min(Len(providers),
                               1 + CommonPrefix(routeChain, chain, 1))),
                    chain)
    /\ sessionEvent' = [name |-> "navigate", level |-> 0, outcome |-> "none"]
    /\ UNCHANGED <<location, logoutCalls>>
    /\ UNCHANGED <<formVars, listVars, tableVars, hookVars, appVars,
                   catalogVars>>

\* the /login/profile promise of provider k settles
ProfileSettles(k, response) ==
    /\ location = "protected"
    /\ ~RedirectPending
    /\ k \in DOMAIN providers
    /\ providers[k].profileFetch = "pending"
    /\ providers' =
          Reconcile([providers EXCEPT ![k] = getAuthState(@, response)],
                    routeChain)
    /\ sessionEvent' = [name |-> "profile", level |-> k,
                        outcome |-> response.kind]
    /\ UNCHANGED <<location, routeChain, logoutCalls>>
    /\ UNCHANGED <<formVars, listVars, tableVars, hookVars, appVars,
                   catalogVars>>

\* "Cerrar Sesion" in the Header: handleLogout posts to /login/logout
handleLogout ==
    /\ location = "protected"
    /\ ~RedirectPending
    /\ Layout(providers[1]) = "children"
    /\ logoutCalls < MaxLogout
    /\ logoutCalls' = logoutCalls + 1
    /\ sessionEvent' = [name |-> "handleLogout", level |-> 1,
                        outcome |-> "none"]
    /\ UNCHANGED <<location, routeChain, providers>>
    /\ UNCHANGED <<formVars, listVars, tableVars, hookVars, appVars,
                   catalogVars>>

\* the /login/logout call settles and handleLogout runs to its end
LogoutSettles(outcome) ==
    /\ location = "protected"
    /\ ~RedirectPending
    /\ logoutCalls > 0
    /\ logoutCalls' = logoutCalls - 1
    /\ providers' =
          Reconcile([providers EXCEPT ![1].authState =
                                          LogoutAuthState(@, outcome)],
                    routeChain)
    /\ sessionEvent' = [name |-> "logout", level |-> 1, outcome |-> outcome]
    /\ UNCHANGED <<location, routeChain>>
    /\ UNCHANGED <<formVars, listVars, tableVars, hookVars, appVars,
                   catalogVars>>

\* the effect of a rendered <Navigate>: the router leaves ProtectedRoute, its
\* providers unmount and whatever they still await is ignored
FollowRedirect ==
    /\ location = "protected"
    /\ Screen(providers, routeChain) \in Redirects
    /\ location' = Screen(providers, routeChain)
    /\ routeChain' = <<>>
    /\ providers' = <<>>
    /\ logoutCalls' = 0
    /\ sessionEvent' = [name |-> "redirect", level |-> 0, outcome |-> "none"]
    /\ UNCHANGED <<formVars, listVars, tableVars, hookVars, appVars,
                   catalogVars>>

SessionNext ==
    \/ \E chain \in RouteChains : OpenProtected(chain)
    \/ \E chain \in RouteChains : NavigateWithin(chain)
    \/ \E k \in 1..(MaxDepth + 1), response \in ProfileResponses :
          ProfileSettles(k, response)
    \/ handleLogout
    \/ \E outcome \in LogoutOutcomes : LogoutSettles(outcome)
    \/ FollowRedirect

----------------------------------------------------------------------------
\* Visited pages and tutorial: AppProvider (appContext.tsx) and the tutorial
\* effect of Historial, Approvals and Bookings.
\* A pathname is the sequence of its non-empty segments, <<>> for "/".

\* a literal path segment
Lit(text) == [uuid |-> FALSE, text |-> text, n |-> 0]

\* a segment that is the UUID of record n
Uuid(n) == [uuid |-> TRUE, text |-> "uuid", n |-> n]

\* uuidRegex.test(segment)
uuidRegexTest(segment) == segment.uuid

\* the paths of main.tsx that are used: "/", the three list pages, the
\* detail page /requests/:id of one record and the edit page
\* /requests/:id/edit of every record
Pathnames ==
    {<<>>, <<Lit("history")>>, <<Lit("approvals")>>, <<Lit("bookings")>>}
    \cup {<<Lit("requests"), Uuid(1)>>}
    \cup {<<Lit("requests"), Uuid(n), Lit("edit")>> : n \in 1..MaxUuids}

\* the route element that the router renders for a pathname
PageOf(path) ==
    IF path = <<Lit("history")>> THEN "Historial"
    ELSE IF path = <<Lit("approvals")>> THEN "Approvals"
    ELSE IF path = <<Lit("bookings")>> THEN "Bookings"
    ELSE IF path = <<>> THEN "Login"
    ELSE IF Len(path) = 2 THEN "RequestInfo"
    ELSE "EditTravelRequest"

ListPages == {"Historial", "Approvals", "Bookings"}

\* a normalisation that replaces every UUID segment
Cleaned_EverySegment(segments) ==
    [i \in DOMAIN segments |->
        IF uuidRegexTest(segments[i]) THEN Lit("id") ELSE segments[i]]

\* handleVisitPage: only the last segment is tested against uuidRegex and
\* replaced by "id"
Cleaned(segments) ==
    IF uuidRegexTest(segments[Len(segments)])
    THEN Append(SubSeq(segments, 1, Len(segments) - 1), Lit("id"))
    ELSE segments

\* an includes() that never finds the key
Includes_Never(list, key) == FALSE

\* Array.prototype.includes
Includes(list, key) == \E i \in DOMAIN list : list[i] = key

\* handleVisitPage: the stored list after a call made while the browser is
\* at pathname
VisitPage(list, path) ==
    IF Len(path) = 0 THEN list
    ELSE IF ~Includes(list, Cleaned(path)) THEN Append(list, Cleaned(path))
    ELSE list

\* the effect clean-up of Historial and Approvals calls handleVisitPage when
\* the page unmounts; the router has pushed the new URL before React unmounts
\* the old route, so the call reads the pathname of the page navigated to
CleanupVisit(list, oldPage, newPath) ==
    IF oldPage \in {"Historial", "Approvals"} THEN VisitPage(list, newPath)
    ELSE list

\* the tutorial effect: isPageVisited, read from the stored list at mount
isPageVisited(list, path) == Includes(list, path)

\* Bookings calls handleVisitPage from the effect body
MountVisit(list, newPage, path) ==
    IF newPage = "Bookings" THEN VisitPage(list, path) ELSE list

NoAppEvent ==
    [name |-> "none", pathname |-> <<>>, started |-> FALSE]

AppInit ==
    /\ pathname = <<>>
    /\ visitedPages = <<>>
    /\ tutorial = FALSE
    /\ mounted = {}
    /\ appEvent = NoAppEvent

\* the tutorial effect of the page rendered for path, run against list
MountEffects(list, path, t) ==
    LET newPage == PageOf(path)
        started == newPage \in ListPages /\ ~isPageVisited(list, path)
    IN /\ tutorial' = (t \/ started)
       /\ visitedPages' = MountVisit(list, newPage, path)
       /\ mounted' = IF newPage \in ListPages
                     THEN mounted \cup {newPage} ELSE mounted
       /\ pathname' = path

\* client-side navigation (link, navigate(), back/forward): the URL changes,
\* the old page unmounts and runs its clean-up, the new page mounts and runs
\* its effects; leaving for "/" unmounts AppProvider
NavigateTo(path) ==
    /\ path # pathname
    /\ LET afterCleanup == CleanupVisit(visitedPages, PageOf(pathname), path)
       IN /\ MountEffects(afterCleanup, path,
                          tutorial /\ path # <<>> /\ pathname # <<>>)
          /\ appEvent' =
                [name |-> "navigate", pathname |-> path,
                 started |-> PageOf(path) \in ListPages
                             /\ ~isPageVisited(afterCleanup, path)]
    /\ UNCHANGED <<formVars, listVars, tableVars, hookVars, sessionVars,
                   catalogVars>>

\* the URL is loaded by the browser (address bar, reload): the old document
\* is discarded without clean-up and a new AppProvider mounts
LoadUrl(path) ==
    /\ MountEffects(visitedPages, path, FALSE)
    /\ appEvent' =
          [name |-> "load", pathname |-> path,
           started |-> PageOf(path) \in ListPages
                       /\ ~isPageVisited(visitedPages, path)]
    /\ UNCHANGED <<formVars, listVars, tableVars, hookVars, sessionVars,
                   catalogVars>>

\* the "Tutorial" button of the Layout: setTutorial(true)
ShowTutorial ==
    /\ pathname # <<>>
    /\ ~tutorial
    /\ tutorial' = TRUE
    /\ appEvent' = [NoAppEvent EXCEPT !.name = "button", !.pathname = pathname]
    /\ UNCHANGED <<pathname, visitedPages, mounted>>
    /\ UNCHANGED <<formVars, listVars, tableVars, hookVars, sessionVars,
                   catalogVars>>

AppNext ==
    \/ \E path \in Pathnames : NavigateTo(path)
    \/ \E path \in Pathnames : LoadUrl(path)
    \/ ShowTutorial

----------------------------------------------------------------------------
\* Destination catalog: useDestinations over useQuery(["destinations"])

\* what a catalog record can be: the three fields of Destination
CatalogDestinations ==
    {[id |-> "d1", city |-> "Lima", country |-> "Peru"],
     [id |-> "d2", city |-> "Leon", country |-> "Mexico"]}

\* a response body: an array of destinations, or a JSON value of another kind
Body(kind, items) == [kind |-> kind, items |-> items]

\* data of a query that has never succeeded: undefined
NoData == Body("undefined", <<>>)

\* response.data of GET /destinations: the catalog, or a body that is not an
\* array (an object, the empty string of an empty body)
CatalogBodies ==
    {Body("array", items) : items \in SeqsUpTo(CatalogDestinations, MaxCatalog)}
    \cup {Body("object", <<>>), Body("string", <<>>)}

\* Array.isArray(destinations)
IsArray(body) == body.kind = "array"

\* the option built for one destination
DestinationOption(dest) ==
    [id |-> dest.id, name |-> dest.city \o ", " \o dest.country]

\* the hook without the Array.isArray guards: mapping a value that is not an
\* array throws in the render
useDestinations_Unguarded(query) ==
    [destinations |-> query.data.items,
     destinationOptions |->
        [i \in DOMAIN query.data.items |->
            DestinationOption(query.data.items[i])],
     isLoading |-> query.status = "pending" /\ query.fetchStatus = "fetching",
     error |-> query.error,
     thrown |-> ~IsArray(query.data)]

\* useDestinations: what the hook returns for the state of the query
useDestinations(query) ==
    [destinations |->
        IF IsArray(query.data) THEN query.data.items ELSE <<>>,
     destinationOptions |->
        IF IsArray(query.data)
        THEN [i \in DOMAIN query.data.items |->
                 DestinationOption(query.data.items[i])]
        ELSE <<>>,
     isLoading |-> query.status = "pending" /\ query.fetchStatus = "fetching",
     error |-> query.error,
     thrown |-> FALSE]

\* the result before a form that uses the hook has rendered
NoRender ==
    [destinations |-> <<>>, destinationOptions |-> <<>>, isLoading |-> FALSE,
     error |-> NULL, thrown |-> FALSE]

\* the query before its first fetch
NewQuery ==
    [status |-> "pending", fetchStatus |-> "idle", data |-> NoData,
     error |-> NULL, failureCount |-> 0]

\* the query when a fetch starts: a query without data goes back to pending
\* and drops its error, a query with data keeps both
FetchState(query) ==
    IF query.data = NoData
    THEN [query EXCEPT !.fetchStatus = "fetching", !.failureCount = 0,
                       !.status = "pending", !.error = NULL]
    ELSE [query EXCEPT !.fetchStatus = "fetching", !.failureCount = 0]

\* useQuery default retry: a failed fetch is tried again three times while an
\* observer is mounted
ShouldRetryQuery(failureCount, observed) == observed /\ failureCount < 3

CatalogInit ==
    /\ destinationsQuery = NewQuery
    /\ catalogObserver = FALSE
    /\ destinationsResult = NoRender

\* a form mounts and calls useDestinations: the query is stale (staleTime 0),
\* so it is fetched unless a fetch is already running
UseDestinationsMount ==
    /\ ~catalogObserver
    /\ catalogObserver' = TRUE
    /\ destinationsQuery' =
          IF destinationsQuery.fetchStatus = "fetching"
          THEN destinationsQuery
          ELSE FetchState(destinationsQuery)
    /\ destinationsResult' = useDestinations(destinationsQuery')
    /\ UNCHANGED <<formVars, listVars, tableVars, hookVars, sessionVars,
                   appVars>>

\* the form unmounts; the request that is running is not cancelled
UseDestinationsUnmount ==
    /\ catalogObserver
    /\ catalogObserver' = FALSE
    /\ destinationsResult' = NoRender
    /\ UNCHANGED destinationsQuery
    /\ UNCHANGED <<formVars, listVars, tableVars, hookVars, sessionVars,
                   appVars>>

\* the window gets the focus back while the form is mounted: refetch
WindowFocus ==
    /\ catalogObserver
    /\ destinationsQuery.fetchStatus = "idle"
    /\ destinationsQuery' = FetchState(destinationsQuery)
    /\ destinationsResult' = useDestinations(destinationsQuery')
    /\ UNCHANGED catalogObserver
    /\ UNCHANGED <<formVars, listVars, tableVars, hookVars, sessionVars,
                   appVars>>

\* fetchDestinations resolves with response.data
FetchDestinationsResolves(body) ==
    /\ destinationsQuery.fetchStatus = "fetching"
    /\ destinationsQuery' =
          [status |-> "success", fetchStatus |-> "idle", data |-> body,
           error |-> NULL, failureCount |-> 0]
    /\ destinationsResult' =
          IF catalogObserver THEN useDestinations(destinationsQuery')
          ELSE NoRender
    /\ UNCHANGED catalogObserver
    /\ UNCHANGED <<formVars, listVars, tableVars, hookVars, sessionVars,
                   appVars>>

\* fetchDestinations rejects (getRequest rethrows the axios error): retried,
\* or kept as the error of the query; the data of an earlier success stays
FetchDestinationsRejects ==
    /\ destinationsQuery.fetchStatus = "fetching"
    /\ destinationsQuery' =
          IF ShouldRetryQuery(destinationsQuery.failureCount, catalogObserver)
          THEN [destinationsQuery EXCEPT
                   !.failureCount = destinationsQuery.failureCount + 1]
          ELSE [destinationsQuery EXCEPT
                   !.status = "error", !.fetchStatus = "idle",
                   !.error = "AxiosError",
                   !.failureCount = destinationsQuery.failureCount + 1]
    /\ destinationsResult' =
          IF catalogObserver THEN useDestinations(destinationsQuery')
          ELSE NoRender
    /\ UNCHANGED catalogObserver
    /\ UNCHANGED <<formVars, listVars, tableVars, hookVars, sessionVars,
                   appVars>>

\* the unobserved, idle query is removed from the cache after gcTime
CacheCollect ==
    /\ ~catalogObserver
    /\ destinationsQuery.fetchStatus = "idle"
    /\ destinationsQuery # NewQuery
    /\ destinationsQuery' = NewQuery
    /\ UNCHANGED <<catalogObserver, destinationsResult>>
    /\ UNCHANGED <<formVars, listVars, tableVars, hookVars, sessionVars,
                   appVars>>

CatalogNext ==
    \/ UseDestinationsMount
    \/ UseDestinationsUnmount
    \/ WindowFocus
    \/ \E body \in CatalogBodies : FetchDestinationsResolves(body)
    \/ FetchDestinationsRejects
    \/ CacheCollect

----------------------------------------------------------------------------
\* Specifications

FormIdle ==
    /\ formVariant = "TravelRequestForm"
    /\ requestId = ""
    /\ id_origin_city = NULL
    /\ requests_destinations = <<>>
    /\ formPc = "dashboard"
    /\ lastEvent = "none"
    /\ inFlight = 0
    /\ issued = <<>>
    /\ toast = NoToast
    /\ thrown = NoError

ListIdle ==
    /\ authState = [userId |-> SessionUserId, userPermissions |-> {}]
    /\ view = "none"
    /\ listPc = "idle"
    /\ pendingFetch = <<>>
    /\ fetched = <<>>
    /\ dataWithActions = <<>>
    /\ listToast = NoToast

TableIdle ==
    /\ tableKind = "Refunds"
    /\ itemsPerPage = 5
    /\ data = <<>>
    /\ localData = <<>>
    /\ currentPage = 1
    /\ tableEvent = [name |-> "mount", page |-> 0]

HookIdle == HookInit

SessionIdle == SessionInit

AppIdle == AppInit

CatalogIdle == CatalogInit

InitForm == FormInit /\ ListIdle /\ TableIdle /\ HookIdle /\ SessionIdle
    /\ AppIdle /\ CatalogIdle
SpecForm == InitForm /\ [][FormNext]_vars

InitList == ListInit /\ FormIdle /\ TableIdle /\ HookIdle /\ SessionIdle
    /\ AppIdle /\ CatalogIdle
SpecList == InitList /\ [][ListNext]_vars

InitTable == TableInit /\ FormIdle /\ ListIdle /\ HookIdle /\ SessionIdle
    /\ AppIdle /\ CatalogIdle
SpecTable == InitTable /\ [][TableNext]_vars
SpecTableUi == InitTable /\ [][TableUiNext]_vars

InitHook == HookInit /\ FormIdle /\ ListIdle /\ TableIdle /\ SessionIdle
    /\ AppIdle /\ CatalogIdle
SpecHook == InitHook /\ [][HookNext]_vars

InitSession ==
    SessionInit /\ FormIdle /\ ListIdle /\ TableIdle /\ HookIdle /\ AppIdle
    /\ CatalogIdle
SpecSession == InitSession /\ [][SessionNext]_vars

\* every request is subject to the 5000 ms axios timeout, so the profile
\* request of the outer provider settles
SpecSessionLive ==
    SpecSession /\
    WF_vars(\E response \in ProfileResponses : ProfileSettles(1, response))

InitApp ==
    AppInit /\ FormIdle /\ ListIdle /\ TableIdle /\ HookIdle /\ SessionIdle
    /\ CatalogIdle
SpecApp == InitApp /\ [][AppNext]_vars

InitCatalog ==
    CatalogInit /\ FormIdle /\ ListIdle /\ TableIdle /\ HookIdle
    /\ SessionIdle /\ AppIdle
SpecCatalog == InitCatalog /\ [][CatalogNext]_vars

----------------------------------------------------------------------------
\* Properties of the paginated tables (SpecTable)

\* C9: after changePage(p) on a non-empty collection of n items with page
\* size s, the current page is p clamped into [1, ceil(n/s)] and the rows
\* shown are the items (page-1)*s .. min(page*s, n)-1 of the collection.
C9_ChangePageClamps ==
    (tableEvent.name = "changePage" /\ Len(Collection) >= 1)
    => LET n == Len(Collection)
           s == itemsPerPage
           p == tableEvent.page
           last == CHOOSE t \in 1..n : t * s >= n /\ (t - 1) * s < n
           first0 == (currentPage - 1) * s
           end0 == IF currentPage * s < n THEN currentPage * s ELSE n
       IN /\ currentPage = (IF p < 1 THEN 1 ELSE IF p > last THEN last ELSE p)
          /\ currentItems = [i \in 1..(end0 - first0) |-> Collection[first0 + i]]
          /\ currentItems # <<>>

\* 12 items, page size 5, changePage(10): page 3 with the last two items
C9_Witness ==
    /\ tableEvent = [name |-> "changePage", page |-> 10]
    /\ Len(Collection) = 12
    /\ itemsPerPage = 5
    /\ currentPage = 3
    /\ currentItems = <<11, 12>>

----------------------------------------------------------------------------
\* Properties of the list views (SpecList)

\* the fetched record a displayed row was built from
RecordOf(row) == fetched[row.id]

RowIds == [i \in DOMAIN dataWithActions |-> dataWithActions[i].id]

FilterPermissions == {"approve_request", "submit_reservations", "check_budgets"}

\* C4: in every list view, each displayed row of a request with a non-empty
\* itinerary shows the formatted departure_date of the entry whose
\* destination_order is 1, the lowest order, whatever the stored order.
C4_DepartureOfFirstLeg ==
    listPc = "shown" =>
        \A i \in DOMAIN dataWithActions :
            LET legs == RecordOf(dataWithActions[i]).requests_destinations
            IN \E j \in DOMAIN legs :
                /\ legs[j].destination_order = 1
                /\ \A m \in DOMAIN legs :
                      legs[m].destination_order >= legs[j].destination_order
                /\ dataWithActions[i].departureDate
                      = formatDate(legs[j].departure_date)

\* a row of a request whose itinerary is stored last leg first, with
\* different departure dates
C4_Witness ==
    /\ listPc = "shown"
    /\ \E i \in DOMAIN dataWithActions :
        LET legs == RecordOf(dataWithActions[i]).requests_destinations
        IN /\ Len(legs) >= 2
           /\ legs[1].destination_order # 1
           /\ \E j \in DOMAIN legs :
                /\ legs[j].destination_order = 1
                /\ legs[j].departure_date # legs[1].departure_date

\* C5: when approve_request is the only filtering permission of the session,
\* the history view shows exactly the fetched records whose status is none of
\* Pending Review, Denied, Cancelled and whose id_admin is the session's
\* userId, in fetched order.
C5_ApproverFilter ==
    (/\ view = "historial"
     /\ listPc = "shown"
     /\ authState.userPermissions \cap FilterPermissions = {"approve_request"})
    => LET Passes(record) ==
              /\ record.status # "Pending Review"
              /\ record.status # "Denied"
              /\ record.status # "Cancelled"
              /\ record.id_admin = authState.userId
           expected == SelectSeq(fetched, Passes)
       IN RowIds = [i \in DOMAIN expected |-> expected[i].id]

\* userId 999: an Approved record of admin 999 is shown, a Pending Review
\* record of admin 999 is not
C5_Witness ==
    /\ view = "historial"
    /\ listPc = "shown"
    /\ authState.userPermissions = {"approve_request"}
    /\ authState.userId = "999"
    /\ Len(fetched) = 2
    /\ fetched[1].status = "Approved" /\ fetched[1].id_admin = "999"
    /\ fetched[2].status = "Pending Review" /\ fetched[2].id_admin = "999"
    /\ RowIds = <<1>>

\* C6 as stated: with submit_reservations, a record is shown only if its
\* status is none of the five excluded ones and the session user is a user
\* of that record's own travel agency.
C6_OwnAgencyOnly ==
    (/\ view = "historial"
     /\ listPc = "shown"
     /\ "submit_reservations" \in authState.userPermissions)
    => \A i \in DOMAIN dataWithActions :
          LET record == RecordOf(dataWithActions[i])
          IN /\ record.status \notin
                    {"Pending Review", "Denied", "Cancelled", "Changes Needed",
                     "Pending Reservations"}
             /\ authState.userId \in record.travel_agency

\* C7: with check_budgets, every record the history view shows has status
\* Pending Accounting Approval and the session's userId as id_SOI; when
\* check_budgets is the only filtering permission, every such record is shown.
C7_BudgetFilter ==
    (/\ view = "historial"
     /\ listPc = "shown"
     /\ "check_budgets" \in authState.userPermissions)
    => LET Passes(record) ==
              /\ record.status = "Pending Accounting Approval"
              /\ record.id_SOI = authState.userId
           expected == SelectSeq(fetched, Passes)
       IN /\ \A i \in DOMAIN dataWithActions :
                Passes(RecordOf(dataWithActions[i]))
          /\ (authState.userPermissions \cap FilterPermissions
                    = {"check_budgets"}
                => RowIds = [i \in DOMAIN expected |-> expected[i].id])

\* a response with one record awaiting this accountant and one that is not
C7_Witness ==
    /\ view = "historial"
    /\ listPc = "shown"
    /\ authState.userPermissions = {"check_budgets"}
    /\ Len(fetched) = 2
    /\ fetched[1].status = "Approved" /\ fetched[1].id_SOI = "999"
    /\ fetched[2].status = "Pending Accounting Approval"
    /\ fetched[2].id_SOI = "999"
    /\ RowIds = <<2>>

\* C8: the step that mounts the history view issues exactly one list fetch,
\* to /requests/user with create_request, else to /requests/to-approve-SOI
\* with check_budgets, else to /requests/all; no other step issues a fetch.
C8_EndpointPrecedence ==
    [][/\ (view = "none" /\ view' = "historial")
            => pendingFetch' =
                 Append(pendingFetch,
                    [view |-> "historial",
                     url |-> IF "create_request" \in authState.userPermissions
                             THEN "/requests/user"
                             ELSE IF "check_budgets" \in authState.userPermissions
                             THEN "/requests/to-approve-SOI"
                             ELSE "/requests/all",
                     live |-> TRUE])
       /\ Len(pendingFetch') > Len(pendingFetch)
            => view = "none" /\ view' # "none"]_vars

\* a session with both create_request and check_budgets fetched /requests/user
C8_Witness ==
    /\ view = "historial"
    /\ listPc = "fetching"
    /\ {"create_request", "check_budgets"} \subseteq authState.userPermissions
    /\ Len(pendingFetch) = 1
    /\ pendingFetch[1].url = "/requests/user"

\* C10: the badge a view shows for a status is the badge each of the three
\* views' renderStatus gives for it; a status without a case shows its raw
\* string in the grey default style.
C10_SameBadge ==
    listPc = "shown" =>
        \A i \in DOMAIN dataWithActions :
            LET raw == RecordOf(dataWithActions[i]).status
                badge == dataWithActions[i].status
            IN /\ badge = renderStatus_Historial(raw)
               /\ badge = renderStatus_Approvals(raw)
               /\ badge = renderStatus_Bookings(raw)
               /\ (raw \notin KnownStatuses
                    => badge = [statusText |-> raw,
                                styles |-> "text-white bg-[#6c757d]"])

\* the bookings view shows a record whose status has no case
C10_Witness ==
    /\ view = "bookings"
    /\ listPc = "shown"
    /\ \E i \in DOMAIN dataWithActions :
          /\ RecordOf(dataWithActions[i]).status = "Approved"
          /\ dataWithActions[i].status.statusText = "Approved"

----------------------------------------------------------------------------
\* Properties of the travel request form (SpecForm)

\* C1: every create/update call issued by onSubmit carries one wire record
\* per form entry, in list order; the record at position i has
\* destination_order = i, so the orders are exactly 1..N, and
\* is_last_destination is true at position N and nowhere else.
C1_OrderAndLastFlag ==
    \A k \in DOMAIN issued :
        LET wire == issued[k].payload.requests_destinations
            N == Len(wire)
        IN /\ N >= 1
           /\ N = Len(requests_destinations)
           /\ \A i \in 1..N :
                /\ wire[i].destination_order = i
                /\ wire[i].is_last_destination = (i = N)
                /\ wire[i].id_destination = requests_destinations[i].id_destination
           /\ {wire[i].destination_order : i \in 1..N} = 1..N
           /\ Cardinality({i \in 1..N : wire[i].is_last_destination}) = 1

\* a call with two destinations was issued after an entry was added
C1_Witness ==
    /\ issued # <<>>
    /\ Len(issued[1].payload.requests_destinations) >= 2

C3_OriginRequired ==
    [][(lastEvent' = "onSubmit" /\ id_origin_city = NULL)
        => /\ toast' = ToastOrigin
           /\ issued' = <<>>
           /\ inFlight' = inFlight
           /\ formPc' = formPc
           /\ UNCHANGED <<id_origin_city, requests_destinations>>]_vars

\* a submission without origin whose destinations were all filled in
C3_Witness ==
    /\ lastEvent = "onSubmit"
    /\ id_origin_city = NULL
    /\ toast = ToastOrigin
    /\ \A i \in DOMAIN requests_destinations :
          /\ requests_destinations[i].id_destination # NULL
          /\ requests_destinations[i].arrival_date
                > requests_destinations[i].departure_date

----------------------------------------------------------------------------
\* Properties of the mutation hooks (SpecHook)

\* C11: the "travelRequests" query key is invalidated once for every create
\* or update mutation that succeeded and never for one that failed, and a
\* list view that has read the requests shows what the server held at or
\* after its mount, never data fetched before an earlier mutation.
C11_InvalidateOnSuccess ==
    /\ invalidations = serverVersion
    /\ lastSettled.outcome = "2xx" => invalidations >= 1
    /\ listRead.pc = "shown" => listRead.shown >= listRead.since

\* a mutation failed, another succeeded, and a list view mounted after the
\* success has read the requests
C11_Witness ==
    /\ invocations - Len(mutations) > serverVersion
    /\ invalidations >= 1
    /\ listRead.pc = "shown"
    /\ listRead.since >= 1

\* C12: when the call of a mutation fails (4xx/5xx, timeout, no connection,
\* set-up error) the promise of mutateAsync rejects with the very error object
\* the transport produced, response body included, and the failure is logged
\* by the interceptor and by the hook; it is never turned into a resolved
\* value.
C12_FailurePropagates ==
    lastSettled.outcome \in TransportFailures =>
        /\ hookResult.settled = "rejected"
        /\ hookResult.call = lastSettled.call
        /\ hookResult.error = lastSettled.error
        /\ logged \cap {"Error creating travel request:",
                        "Error updating travel request:"} # {}
        /\ logged \cap {"STATUS", "No se recibio respuesta de la API",
                        "Error al configurar la peticion"} # {}

\* a 4xx/5xx reply with a message body reached the caller as a rejection
C12_Witness ==
    /\ lastSettled.outcome = "response"
    /\ hookResult.settled = "rejected"
    /\ hookResult.error.response.data.message = ServerMessage

\* C13: the number of POST/PUT calls equals the number of mutateAsync
\* invocations: one call per invocation, no retry after a failure, and
\* invocations that overlap each keep their own call.
C13_OneCallPerInvocation ==
    /\ networkCalls = invocations
    /\ \A i, j \in DOMAIN mutations :
          i # j => mutations[i].call # mutations[j].call
    /\ \A i \in DOMAIN mutations : mutations[i].failureCount = 0

\* three invocations: one has failed while the other two are still in flight
C13_Witness ==
    /\ invocations = 3
    /\ Len(mutations) = 2
    /\ hookResult.settled = "rejected"
    /\ networkCalls = 3

----------------------------------------------------------------------------
\* Properties of the session (SpecSession, SpecSessionLive)

\* the PermissionProtectedRoute elements that are rendered: element k is
\* rendered when Layout shows its children and every element above it
\* rendered its Outlet, which is when provider k is mounted
RenderedRoutes ==
    IF location = "protected" /\ Layout(providers[1]) = "children"
    THEN {k \in DOMAIN routeChain : k <= Len(providers)}
    ELSE {}

\* C14: a rendered PermissionProtectedRoute renders its child route exactly
\* when the authState it reads is authenticated and holds all required
\* permissions (requireAll) or at least one of them (requireAll = false); it
\* redirects to /example when not authenticated, whatever the permissions,
\* and to /unauthorized when authenticated without the permissions.
C14_PermissionGate ==
    \A k \in RenderedRoutes :
        LET auth == providers[k].authState
            props == routeChain[k]
            held == props.requiredPermissions \cap auth.userPermissions
            allowed == IF props.requireAll
                       THEN held = props.requiredPermissions
                       ELSE held # {}
            result == PermissionProtectedRoute(auth, props)
        IN /\ (result = "Outlet") = (auth.isAuthenticated /\ allowed)
           /\ ~auth.isAuthenticated => result = "/example"
           /\ (auth.isAuthenticated /\ ~allowed) => result = "/unauthorized"
           /\ (Len(providers) > k) = (result = "Outlet")

\* a route with requireAll = false renders its child for a session holding
\* exactly one of its two required permissions
C14_Witness ==
    /\ RenderedRoutes # {}
    /\ ~routeChain[1].requireAll
    /\ Cardinality(routeChain[1].requiredPermissions) = 2
    /\ Cardinality(providers[1].authState.userPermissions) = 1
    /\ Len(providers) > 1

\* C15, state part: the page is shown only when the outer profile fetch has
\* settled and isAuthenticated is true; while loadingProfile is set the
\* layout shows the placeholder, neither content nor a redirect; with loading
\* finished and isAuthenticated false the layout redirects to "/"
LayoutGate ==
    location = "protected" =>
        LET outer == providers[1]
        IN /\ Screen(providers, routeChain) = "page" =>
                 /\ outer.profileFetch = "settled"
                 /\ ~outer.loadingProfile
                 /\ outer.authState.isAuthenticated
           /\ Layout(outer) = "children" =>
                 /\ outer.profileFetch = "settled"
                 /\ outer.authState.isAuthenticated
           /\ outer.loadingProfile =>
                 Screen(providers, routeChain) = "Loading..."
           /\ (~outer.loadingProfile /\ ~outer.authState.isAuthenticated) =>
                 Screen(providers, routeChain) = "/"

\* C15, step part: a provider turns authenticated only in the step that
\* consumes a /login/profile reply with a truthy status
AuthenticatedOnlyByProfile ==
    \A k \in 1..(MaxDepth + 1) :
        (/\ k \in DOMAIN providers'
         /\ providers'[k].authState.isAuthenticated
         /\ ~(k \in DOMAIN providers /\ providers[k].authState.isAuthenticated))
        => sessionEvent' = [name |-> "profile", level |-> k,
                            outcome |-> "profile"]

\* C15: page content behind the protected layout is rendered only when the
\* profile fetch has completed and isAuthenticated is true; isAuthenticated
\* becomes true only from a /login/profile reply with a truthy status; while
\* loading there is neither content nor redirect, and after loading with
\* isAuthenticated false the user is redirected to "/".
C15_LayoutGate == []LayoutGate /\ [][AuthenticatedOnlyByProfile]_vars

\* the profile reply arrived with a truthy status and the page is shown
C15_Witness ==
    /\ location = "protected"
    /\ sessionEvent = [name |-> "profile", level |-> 1, outcome |-> "profile"]
    /\ Screen(providers, routeChain) = "page"

OuterLoading == location = "protected" /\ providers[1].loadingProfile

OuterLoaded ==
    /\ location = "protected"
    /\ ~providers[1].loadingProfile
    /\ Screen(providers, routeChain) # "Loading..."

\* C16: after AuthProvider mounted, loadingProfile eventually becomes false
\* whatever the /login/profile fetch yields (truthy status, falsy status,
\* malformed body, rejection); once the fetch has settled the layout has left
\* the loading placeholder and shows the page or a redirect.
C16_LoadingEnds ==
    /\ [](location = "protected" =>
             (providers[1].profileFetch = "settled" => OuterLoaded))
    /\ (OuterLoading ~> OuterLoaded)

\* the profile request was rejected and the layout has left the placeholder
C16_Witness ==
    /\ location = "protected"
    /\ sessionEvent = [name |-> "profile", level |-> 1, outcome |-> "rejected"]
    /\ ~providers[1].loadingProfile
    /\ Screen(providers, routeChain) = "/"

\* C17: after handleLogout has been invoked and its /login/logout call has
\* settled, isAuthenticated is false and userId, name, email, role and
\* permissions are empty.
C17_LogoutResets ==
    (location = "protected" /\ sessionEvent.name = "logout") =>
        providers[1].authState = DefaultAuthState

----------------------------------------------------------------------------
\* Properties of the visited-page list and the tutorial (SpecApp)

\* the route a stored key belongs to: UUID segments and the placeholder
\* stand for the route parameter
RouteOf(key) ==
    [i \in DOMAIN key |->
        IF uuidRegexTest(key[i]) \/ key[i] = Lit("id") THEN Lit(":id")
        ELSE key[i]]

\* C18: the stored keys are normalized, no key holds a UUID segment, so the
\* per-record pages of one route (/requests/<uuid>, /requests/<uuid>/edit)
\* add at most one key per route however many records are visited.
C18_OneKeyPerRoute ==
    /\ \A i \in DOMAIN visitedPages :
          \A k \in DOMAIN visitedPages[i] :
              ~uuidRegexTest(visitedPages[i][k])
    /\ \A i, j \in DOMAIN visitedPages :
          RouteOf(visitedPages[i]) = RouteOf(visitedPages[j]) => i = j

IsPrefix(a, b) == Len(a) <= Len(b) /\ SubSeq(b, 1, Len(a)) = a

NoDuplicates(list) ==
    \A i, j \in DOMAIN list : list[i] = list[j] => i = j

\* C19: the stored visitedPages list is append-only and duplicate-free: no
\* step removes or reorders a key, a key already present is not added again,
\* and a handleVisitPage call made on the root path leaves the list unchanged.
C19_AppendOnly ==
    /\ []NoDuplicates(visitedPages)
    /\ [][/\ IsPrefix(visitedPages, visitedPages')
          /\ pathname' = <<>> => visitedPages' = visitedPages]_vars

\* a list page was left for "/" with two keys stored: the clean-up called
\* handleVisitPage on the root path
C19_Witness ==
    /\ appEvent.name = "navigate"
    /\ pathname = <<>>
    /\ mounted # {}
    /\ Len(visitedPages) >= 2

\* C20: on the history, approvals and bookings pages the tutorial is
\* auto-started on mount only when the page has not been visited before: once
\* a page has been mounted, no later mount of that page auto-starts it.
C20_TutorialOncePerPage ==
    [][(appEvent'.name \in {"navigate", "load"} /\ appEvent'.started)
          => PageOf(pathname') \notin mounted]_vars

----------------------------------------------------------------------------
\* Properties of the destination catalog (SpecCatalog)

\* the options the select shows for a catalog, one per destination, in order
OptionsOf(items) ==
    /\ Len(destinationsResult.destinationOptions) = Len(items)
    /\ \A i \in DOMAIN items :
          /\ destinationsResult.destinationOptions[i].id = items[i].id
          /\ destinationsResult.destinationOptions[i].name
                = items[i].city \o ", " \o items[i].country

BothEmpty ==
    /\ destinationsResult.destinations = <<>>
    /\ destinationsResult.destinationOptions = <<>>

\* C21 as stated: useDestinations never throws into its caller; while the
\* catalog fetch is in flight, and when it failed or yielded a non-array,
\* destinations and destinationOptions are empty; when it succeeded,
\* destinationOptions has one {id, "city, country"} entry per destination,
\* in catalog order.
C21_EmptyUnlessSucceeded ==
    catalogObserver =>
        /\ ~destinationsResult.thrown
        /\ (\/ destinationsQuery.fetchStatus = "fetching"
            \/ destinationsQuery.status = "error"
            \/ ~IsArray(destinationsQuery.data)) => BothEmpty
        /\ (destinationsQuery.status = "success"
               /\ IsArray(destinationsQuery.data))
            => OptionsOf(destinationsQuery.data.items)

\* C21 amended: useDestinations never throws into its caller; while the cache
\* holds no catalog array (the first fetch is in flight, the fetch failed with
\* no earlier success, or the last reply was not an array) destinations and
\* destinationOptions are empty, a first fetch in flight is reported by
\* isLoading with no error, and a failure by error without isLoading; while
\* the cache holds a catalog array, also during a refetch and after a failed
\* refetch, destinations is that array and destinationOptions has one
\* {id, "city, country"} entry per destination, in catalog order.
C21_CatalogContract ==
    catalogObserver =>
        /\ ~destinationsResult.thrown
        /\ ~IsArray(destinationsQuery.data) => BothEmpty
        /\ (destinationsQuery.data = NoData
               /\ destinationsQuery.fetchStatus = "fetching")
            => destinationsResult.isLoading /\ destinationsResult.error = NULL
        /\ destinationsQuery.status = "error"
            => ~destinationsResult.isLoading /\ destinationsResult.error # NULL
        /\ IsArray(destinationsQuery.data)
            => /\ destinationsResult.destinations = destinationsQuery.data.items
               /\ OptionsOf(destinationsQuery.data.items)
               /\ ~destinationsResult.isLoading

\* a refetch of a cached two-destination catalog has failed: the catalog is
\* still shown and the error is reported
C21_Witness ==
    /\ catalogObserver
    /\ destinationsQuery.status = "error"
    /\ Len(destinationsQuery.data.items) = 2
    /\ destinationsQuery.data.items[1] # destinationsQuery.data.items[2]
    /\ Len(destinationsResult.destinationOptions) = 2
    /\ destinationsResult.error # NULL

----------------------------------------------------------------------------
\* Properties of the submit workflow (SpecForm)

SuccessToasts == {ToastCreated, ToastUpdated}

FailureToasts == {ServerMessage, ToastCreateFailed, ToastUpdateFailed}

FormValues == <<id_origin_city, requests_destinations>>

\* C22: the form leaves for /dashboard, and its values are reset, only in a
\* step in which a create/update call resolved, and that step raises the
\* success notification; a step in which a call rejected raises an error
\* notification, leaves the form values as they were and does not navigate.
C22_ResetAndNavigateOnSuccess ==
    [][/\ (formPc \in FormMounted /\ formPc' = "dashboard")
          => lastEvent' = "resolved"
       /\ (lastEvent' \notin {"edit", "mount"} /\ FormValues' # FormValues)
          => lastEvent' = "resolved"
       /\ lastEvent' = "resolved"
          => /\ inFlight' = inFlight - 1
             /\ toast' \in SuccessToasts
             /\ formPc' = "dashboard"
             /\ id_origin_city'
                   = defaultValues(formVariant, requestId).id_origin_city
             /\ requests_destinations'
                   = defaultValues(formVariant, requestId).requests_destinations
       /\ lastEvent' = "rejected"
          => /\ inFlight' = inFlight - 1
             /\ toast' \in FailureToasts
             /\ FormValues' = FormValues
             /\ (formPc \in FormMounted => formPc' \in FormMounted)]_vars

\* a call of a filled-in create form was rejected with a server message: the
\* form is still there with its values
C22_Witness ==
    /\ lastEvent = "rejected"
    /\ toast = ServerMessage
    /\ formPc = "editing"
    /\ id_origin_city # NULL
    /\ \A i \in DOMAIN requests_destinations :
          requests_destinations[i].id_destination # NULL

\* the entry at position i has no destination reference
DestinationUnset(i) == requests_destinations[i].id_destination = NULL

\* the entry at position i fails the date check of the form: TravelRequestForm
\* compares the two dates, CreateTravelRequestForm makes no date check
DateCheckFails(i) ==
    /\ formVariant = "TravelRequestForm"
    /\ requests_destinations[i].arrival_date
          - requests_destinations[i].departure_date <= 0

\* C23: a submission with an origin in which every entry passes the date
\* check and some entry has no destination reference is rejected with the
\* destination error, which is not the date-validity notification, and no
\* create/update call is issued; when an entry fails both checks the
\* date-validity notification is the one raised.
C23_DestinationRequired ==
    (lastEvent = "onSubmit" /\ id_origin_city # NULL)
    => /\ ((\E i \in DOMAIN requests_destinations : DestinationUnset(i))
            /\ (\A i \in DOMAIN requests_destinations : ~DateCheckFails(i)))
          => /\ thrown = ErrorDestination
             /\ toast = NoToast
             /\ ErrorDestination # ToastStay
             /\ issued = <<>>
             /\ formPc # "dashboard"
       /\ (\E i \in DOMAIN requests_destinations :
              DestinationUnset(i) /\ DateCheckFails(i))
          => /\ toast = ToastStay
             /\ thrown = NoError
             /\ issued = <<>>

\* a submission whose only entry has no destination and equal dates was
\* answered with the date-validity notification
C23_Witness ==
    /\ lastEvent = "onSubmit"
    /\ id_origin_city # NULL
    /\ toast = ToastStay
    /\ Len(requests_destinations) = 1
    /\ DestinationUnset(1)
    /\ requests_destinations[1].arrival_date
          = requests_destinations[1].departure_date

\* C24: in every create/update call that onSubmit issues, the stay_days of
\* each wire record is the signed day difference between the arrival and the
\* departure date that the entry has when the form is submitted.
C24_StayDaysDerived ==
    \A k \in DOMAIN issued :
        \A i \in DOMAIN requests_destinations :
            issued[k].payload.requests_destinations[i].stay_days
                = DayDiff(requests_destinations[i].arrival_date,
                          requests_destinations[i].departure_date)

\* C25: the destination list of the form never becomes empty; a removal takes
\* out one entry and leaves at least one, in TravelRequestForm it never takes
\* out the entry at position 0; an addition puts the new entry at the end and
\* leaves the existing entries as they were.
C25_AtLeastOneDestination ==
    /\ [](Len(requests_destinations) >= 1)
    /\ [][lastEvent' = "edit"
           => LET old == requests_destinations
                  new == requests_destinations'
              IN /\ Len(new) < Len(old)
                    => /\ Len(new) = Len(old) - 1
                       /\ Len(new) >= 1
                       /\ formVariant = "TravelRequestForm"
                          => new[1] = old[1]
                 /\ Len(new) > Len(old)
                    => /\ Len(new) = Len(old) + 1
                       /\ SubSeq(new, 1, Len(old)) = old]_vars

\* TravelRequestForm after an addition: the filled-in first entry is followed
\* by the new, empty one
C25_Witness ==
    /\ formVariant = "TravelRequestForm"
    /\ lastEvent = "edit"
    /\ Len(requests_destinations) = 2
    /\ requests_destinations[1].id_destination # NULL
    /\ requests_destinations[2].id_destination = NULL
    /\ requests_destinations[2].arrival_date = EmptyDate

\* exactly one call was issued by the last step: the update call when a
\* request identifier was supplied, the create call otherwise, with the payload
\* assembled from the form values
OneCallIssued ==
    /\ Len(issued) = 1
    /\ issued[1].method = (IF requestId # "" THEN "PUT" ELSE "POST")
    /\ issued[1].requestId = requestId
    /\ issued[1].payload.id_origin_city = id_origin_city
    /\ Len(issued[1].payload.requests_destinations)
          = Len(requests_destinations)
    /\ \A i \in DOMAIN requests_destinations :
          LET wire == issued[1].payload.requests_destinations[i]
              entry == requests_destinations[i]
          IN /\ wire.id_destination = entry.id_destination
             /\ wire.stay_days = entry.stay_days
             /\ wire.arrival_date.day = entry.arrival_date
             /\ wire.departure_date.day = entry.departure_date

\* the submission that onSubmit received has an origin and a destination
\* reference on every entry (it passed the field validation, or onSubmit would
\* not have run)
CompleteSubmission ==
    /\ lastEvent = "onSubmit"
    /\ id_origin_city # NULL
    /\ \A i \in DOMAIN requests_destinations :
          requests_destinations[i].id_destination # NULL

\* C26 as stated: a complete submission in which every entry's arrival date
\* is strictly before its departure date is not rejected: exactly one create
\* call, or one update call when a request identifier was supplied, is issued
\* with the assembled payload.
C26_ArrivalBeforeDepartureSent ==
    (/\ CompleteSubmission
     /\ \A i \in DOMAIN requests_destinations :
           requests_destinations[i].arrival_date
               < requests_destinations[i].departure_date)
    => OneCallIssued

\* C26 amended: a complete submission in which every entry's arrival date is
\* strictly after its departure date (day difference arrival - departure > 0)
\* is not rejected: exactly one create call, or one update call when a request
\* identifier was supplied, is issued with the assembled payload.
C26_ArrivalAfterDepartureSent ==
    (/\ CompleteSubmission
     /\ \A i \in DOMAIN requests_destinations :
           requests_destinations[i].arrival_date
               > requests_destinations[i].departure_date)
    => OneCallIssued /\ toast = NoToast /\ thrown = NoError

\* the edit form of a stored request was submitted with two entries: one
\* update call
C26_Witness ==
    /\ CompleteSubmission
    /\ formVariant = "TravelRequestForm"
    /\ requestId # ""
    /\ Len(requests_destinations) = 2
    /\ Len(issued) = 1
    /\ issued[1].method = "PUT"

\* C29: through the form at most one create/update call is in flight at any
\* time: a submit event that arrives after a call was issued and before that
\* call has settled issues no second call.
C29_OneCallInFlight == inFlight <= 1

----------------------------------------------------------------------------
\* Properties of the paginated tables driven by their buttons (SpecTableUi)

\* C27: in every state of a paginated table, also after the collection it is
\* given has shrunk or become empty while a later page is shown, the current
\* page is within 1 .. max(1, totalPages) and the rows shown are not empty
\* when the collection is not empty.
C27_PageWithinRange ==
    /\ currentPage >= 1
    /\ currentPage <= Max(1, totalPages)
    /\ Len(Collection) >= 1 => currentItems # <<>>


\* the session of the root AuthProvider is authenticated by the profile fetch
\* and holds what both PermissionProtectedRoute elements of the route require
NestedRouteAuthorised ==
    /\ location = "protected"
    /\ Len(routeChain) = 2
    /\ providers[1].profileFetch = "settled"
    /\ providers[1].authState.isAuthenticated
    /\ \A k \in 1..2 : hasPermission(providers[1].authState, routeChain[k])

\* C28: on a route nested in two PermissionProtectedRoute elements
\* (/approval/history, /booking/history), a session that the profile fetch
\* has authenticated and that holds the required permissions of the outer and
\* of the inner element is not redirected to /example or /unauthorized
C28_NestedRouteReached ==
    NestedRouteAuthorised =>
        Screen(providers, routeChain) \notin {"/example", "/unauthorized"}


\* the fetch of the mounted list page settles with a failure: getRequest
\* rejected or the transformation threw
ListFetchFailed == listPc = "fetching" /\ listPc' = "failed"

\* the fetch of the mounted list page settles with rows
ListFetchShown == listPc = "fetching" /\ listPc' = "shown"

\* the ids of the fetched records that pass the filters of the page
PassingIds ==
    LET passing == IF view = "historial"
                   THEN HistorialFilter(fetched', authState) ELSE fetched'
    IN {passing[i].id : i \in DOMAIN passing}

\* C30: the displayed collection of a list view is replaced atomically: when
\* the list fetch fails or the transformation of a fetched record throws,
\* the displayed collection stays exactly as it was and the history view
\* raises its error notification; otherwise every record that passes the
\* filters appears exactly once, in fetched order
C30_AtomicReplace ==
    [][/\ ListFetchFailed =>
            /\ dataWithActions' = dataWithActions
            /\ view = "historial" => listToast' = ToastHistorial
       /\ ListFetchShown =>
            /\ {dataWithActions'[i].id : i \in DOMAIN dataWithActions'}
                  = PassingIds
            /\ \A i, j \in DOMAIN dataWithActions' :
                  i < j => dataWithActions'[i].id < dataWithActions'[j].id]_vars

\* the history view has fetched a record that transforms and, after it, one
\* with an empty destination list: nothing is displayed and the notification
\* is raised
C30_Witness ==
    /\ view = "historial"
    /\ listPc = "failed"
    /\ Len(fetched) >= 2
    /\ fetched[1].requests_destinations # <<>>
    /\ fetched[2].requests_destinations = <<>>
    /\ HistorialFilter(fetched, authState) = fetched
    /\ dataWithActions = <<>>
    /\ listToast = ToastHistorial

=============================================================================
